---- MODULE Spec2Model ----
(***************************************************************************)
(* Deployment scripts of code-canvas-astro as one state machine.           *)
(*                                                                         *)
(* Each behaviour runs ONE of the programs, chosen in Init:                *)
(*   "update"      update_aws_deployment.py   main -> UpdateDeployer.run   *)
(*   "lambda"      deploy_to_lambda.py        main -> LambdaDeployer.deploy*)
(*   "apprunner"   deploy_to_apprunner.py     main -> AppRunnerDeployer    *)
(*   "awsdeployer" deploy_lambda.py           main -> AWSDeployer.deploy   *)
(*   "verify"      aws_route53_cloudfront_deploy.py  verify_deployment()   *)
(*                                                                         *)
(* Everything outside the repository (AWS, docker, the HTTP endpoint, the  *)
(* package.json file) is an input drawn with \E from a small set of the    *)
(* replies that collaborator can give.                                     *)
(*                                                                         *)
(* Spec runs the scripts as pipelines; LiveSpec adds that a script which   *)
(* has a next step takes one; ProvSpec calls one step function several     *)
(* times against an AWS account that remembers what was created in it.     *)
(***************************************************************************)
EXTENDS Integers, Sequences, FiniteSets

VARIABLES
    script,         \* which program this behaviour runs
    pc,             \* control location of the program
    exitCode,       \* process exit status; NotExited while running
    cur,            \* loop variable of the pipeline: index of the current stage
    ok,             \* UpdateDeployer.run: local `ok`; "none" before a stage returned
    invoked,        \* history: indexes of the stage/step functions called, in call order
    returned,       \* history: per stage/step function, how its call ended
    all_passed,     \* UpdateDeployer.run: local all_passed
    failed_at,      \* UpdateDeployer.run: local failed_at (None or a label)
    runResult,      \* value returned by the pipeline entry point; "none" before
    version,        \* UpdateDeployer.version
    image_tag,      \* UpdateDeployer.image_tag
    ecr_image_uri,  \* UpdateDeployer.ecr_image_uri
    ver,            \* per HTTP verifier: loop state and probe history
    max_retries,    \* verify_deployment: argument max_retries
    deployment_result, \* deploy(): the deployment_result dict
    polls,          \* App Runner status poll: describe_service polls made
    firstStatus,    \* App Runner status poll: status seen by the first poll
    prov,           \* the step function called against the AWS account below
    aws,            \* the AWS account: per kind of resource, the one of the
                    \* configured name
    runs,           \* history: one record per call of prov, in call order
    cmdLog,         \* history: the run() calls of the stage in progress (of
                    \* the pre-flight check before the first stage)
    pkgKind,        \* history: what stage 1 found in package.json
    io,             \* history: the parts of UpdateDeployer.run that made an
                    \* external call (AWS API, subprocess, HTTP request)
    pushed,         \* history: the image references stage 6 pushed to ECR
    updated_image,  \* history: ImageUri given to update_function_code
    lastStatus,     \* App Runner status poll: status seen by the latest poll
    files,          \* deploy_lambda.py: the .dockerignore files of DOCKER_CONTEXT
    files0          \* history: files when the script started

vars == << script, pc, exitCode, cur, ok, invoked, returned, all_passed,
           failed_at, runResult, version, image_tag, ecr_image_uri, ver,
           max_retries, deployment_result, polls, firstStatus, prov, aws,
           runs, cmdLog, pkgKind, io, pushed, updated_image, lastStatus,
           files, files0 >>

updVars    == << all_passed, failed_at, version, image_tag, ecr_image_uri >>
otherVars  == << max_retries, deployment_result, polls, firstStatus >>
provVars   == << prov, aws, runs >>
obsVars    == << pushed, updated_image, lastStatus, files, files0 >>
histVars   == << cmdLog, pkgKind, io, obsVars >>

-----------------------------------------------------------------------------
(* Values shared by the programs *)

None      == "None"
NotExited == -1

Scripts == {"update", "lambda", "apprunner", "awsdeployer", "verify"}

\* How a call of a stage/step function ended.
CallResults == {"none", "true", "false", "raise"}

-----------------------------------------------------------------------------
(* update_aws_deployment.py : configuration *)

NumStages == 12

StageLabel(i) ==
    CASE i = 1  -> "Stage 1"
      [] i = 2  -> "Stage 2"
      [] i = 3  -> "Stage 3"
      [] i = 4  -> "Stage 4"
      [] i = 5  -> "Stage 5"
      [] i = 6  -> "Stage 6"
      [] i = 7  -> "Stage 7"
      [] i = 8  -> "Stage 8"
      [] i = 9  -> "Stage 9"
      [] i = 10 -> "Stage 10"
      [] i = 11 -> "Stage 11"
      [] i = 12 -> "Stage 12"

PackageVersion == "1.2.0"
ECR_FULL_URI   == "415740581749.dkr.ecr.us-west-2.amazonaws.com/python-repl-container-lambda"

\* f"v{version}"
ImageTagOf(v) == "v" \o v
\* Mutant of EcrTagOf: the URI of the :latest tag.
EcrTagOfLatest(tag) == ECR_FULL_URI \o ":latest"

\* f"{ECR_FULL_URI}:{self.image_tag}"
EcrTagOf(tag) == ECR_FULL_URI \o ":" \o tag

-----------------------------------------------------------------------------
(* update_aws_deployment.py : run(), the subprocess helper *)

\* What the launched command did. It exited 0 with nothing on stderr ("ok")
\* or with text on it ("ok_warn"). It exited non-zero (CalledProcessError)
\* having written text to stderr ("nonzero"), nothing ("nonzero_quiet") or
\* white space only ("nonzero_blank"). It ran and wrote bytes that are not
\* UTF-8 ("ok_badutf8", "nonzero_badutf8"): text=True decodes the output
\* inside subprocess.run, before check=True looks at the exit status, and
\* the UnicodeDecodeError is not caught. Or it could not be started
\* ("oserror": OSError, not caught).
RunOutcomes ==
    {"ok", "ok_warn", "nonzero", "nonzero_quiet", "nonzero_blank",
     "ok_badutf8", "nonzero_badutf8", "oserror"}

\* The exit status of the command: "zero", "nonzero", or "none" when it was
\* never started.
ExitOf(outcome) ==
    CASE outcome \in {"ok", "ok_warn", "ok_badutf8"} -> "zero"
      [] outcome \in {"nonzero", "nonzero_quiet", "nonzero_blank",
                      "nonzero_badutf8"} -> "nonzero"
      [] outcome = "oserror" -> "none"

\* the first component of the tuple run() returns, or "raise"
run(outcome) ==
    CASE outcome \in {"ok_badutf8", "nonzero_badutf8"} -> "raise"
      [] outcome = "oserror"      -> "raise"
      [] ExitOf(outcome) = "zero" -> "true"
      [] OTHER                    -> "false"

\* the third component: result.stderr.strip() of a command that exited 0;
\* exc.stderr.strip() if exc.stderr is not empty (white space strips to
\* the empty string), else str(exc). "" also when run() raised.
RunStderr(outcome) ==
    CASE outcome = "ok_warn"       -> "captured stderr"
      [] outcome = "nonzero"       -> "captured stderr"
      [] outcome = "nonzero_quiet" -> "Command returned non-zero exit status 1."
      [] OTHER                     -> ""

\* The outcomes that make run() give anything but True.
RunFailKinds == { o \in RunOutcomes : run(o) # "true" }

\* One call of run(): the command, what it did, and what run() gave back.
RunEntry(cmd, outcome) ==
    [cmd |-> cmd, outcome |-> outcome, ok |-> run(outcome),
     stderr |-> RunStderr(outcome)]

\* Mutant of ChainLog: the stage runs every command, whatever failed.
ChainLogRunsAll(cmds, failAt, failKind, warn) ==
    [i \in 1 .. Len(cmds)
        |-> RunEntry(cmds[i], IF i = failAt THEN failKind
                              ELSE IF i \in warn THEN "ok_warn" ELSE "ok")]

\* The run() calls of a stage that runs the commands cmds in order and
\* stops at the first that does not return True. The failAt-th command is
\* the first for which run() gives anything but True (failAt = 0: none);
\* every command before it exited 0, those with an index in warn with
\* text on stderr: run() returns (True, stdout, stderr) for them and the
\* stage goes on.
ChainLog(cmds, failAt, failKind, warn) ==
    [i \in 1 .. (IF failAt = 0 \/ failAt > Len(cmds) THEN Len(cmds) ELSE failAt)
        |-> RunEntry(cmds[i], IF i = failAt THEN failKind
                              ELSE IF i \in warn THEN "ok_warn" ELSE "ok")]

\* A stage that runs n commands through run() one after the other and
\* returns False at the first (False, ...) reply. failAt = 0: none fails.
CommandChain(n, failAt, failKind) ==
    IF failAt = 0 \/ failAt > n THEN "true" ELSE run(failKind)

\* Replies of a boto3 call.
AwsOutcomes == {"ok", "NotFound", "ClientError", "OtherError"}

\* Does the exception an AWS call raised derive from botocore's ClientError?
IsClientError(a) == a \in {"NotFound", "ClientError"}

-----------------------------------------------------------------------------
(* HTTP verifiers: stage 11, stage 12 and verify_deployment *)

Verifiers == {"stage11", "stage12", "verify"}

\* Statuses the endpoint can answer with.
HttpCodes == {200, 204, 301, 302, 400, 403, 404, 405, 500, 503}

\* urllib.request.urlopen hands a status to the stage in one of two ways:
\* it returns a response object (resp.getcode()), or it raises HTTPError
\* (exc.code). It raises for every status its handlers do not resolve: 4xx,
\* 5xx, and a 301/302 it cannot follow (no Location to go to, a redirect
\* loop). The stage also tests a response for 301 and 302, so these are kept
\* among the response statuses.
ResponseCodes  == {200, 204, 301, 302}
HttpErrorCodes == {301, 302, 400, 403, 404, 405, 500, 503}

\* What one urlopen call can hand to the stage: a response with a status,
\* an HTTPError with a code, a URLError, or any other exception. Code 0
\* stands for "no status".
UrlopenOutcomes ==
    [kind : {"response"}, code : ResponseCodes]
        \cup [kind : {"HTTPError"}, code : HttpErrorCodes]
        \cup [kind : {"URLError", "Exception"}, code : {0}]

\* What one requests.get call can hand to verify_deployment: requests does
\* not raise on a status, so every status arrives as a response.
RequestsOutcomes ==
    [kind : {"response"}, code : HttpCodes]
        \cup [kind : {"RequestException"}, code : {0}]

NoOutcome == [kind |-> "none", code |-> 0]

Stage11MaxRetries == 5
Stage12MaxRetries == 5
DefaultMaxRetries == 5

\* Mutant of AttemptRange: range(1, max_retries), one attempt short.
AttemptRangeShort(n) == 1 .. (n - 1)

\* for attempt in range(1, max_retries + 1)
AttemptRange(n) == 1 .. n

\* stage 11: `status in (200, 301, 302)` on a response,
\*           `exc.code in (400, 403, 404, 405)` on an HTTPError
Stage11Succeeds(o) ==
    \/ o.kind = "response"  /\ o.code \in {200, 301, 302}
    \/ o.kind = "HTTPError" /\ o.code \in {400, 403, 404, 405}

\* stage 12: the same two tests
Stage12Succeeds(o) ==
    \/ o.kind = "response"  /\ o.code \in {200, 301, 302}
    \/ o.kind = "HTTPError" /\ o.code \in {400, 403, 404, 405}

\* Mutant of VerifySucceeds: the success test of stages 11 and 12.
VerifySucceedsLikeStages(o) ==
    o.kind = "response" /\ o.code \in {200, 301, 302, 400, 403, 404, 405}

\* verify_deployment: `response.status_code == 200`
VerifySucceeds(o) == o.kind = "response" /\ o.code = 200

\* Mutant of SleepsAfter: the verifier sleeps after its last attempt too.
SleepsAfterEveryAttempt(attempt, n) == TRUE

\* `if attempt < max_retries:` ... time.sleep(delay)
SleepsAfter(attempt, n) == attempt < n

\* The attempt budget of a verifier.
MaxRetriesOf(v) ==
    CASE v = "stage11" -> Stage11MaxRetries
      [] v = "stage12" -> Stage12MaxRetries
      [] v = "verify"  -> max_retries

\* History kept beside the loop state, for stating the properties: the
\* number of probes that ended in a connection-level error or a 5xx reply
\* (transient), and the attempt at which the probe first succeeded by the
\* verifier's own test (firstOkAt, 0 while it has not).
ConnectionOr5xx(o) ==
    \/ o.kind \in {"URLError", "RequestException"}
    \/ o.kind \in {"response", "HTTPError"} /\ o.code >= 500
\* A plain 200 response.
Plain200(o) == o.kind = "response" /\ o.code = 200

VerInit ==
    [attempt |-> 1, probes |-> 0, transient |-> 0, lastOutcome |-> NoOutcome,
     firstOkAt |-> 0, sleeps |-> 0, result |-> "none"]

\* Mutant of AttemptStep: a successful probe does not end the loop.
AttemptStepKeepsGoing(v, o, succ) ==
    LET s == ver[v] IN
    [attempt     |-> s.attempt + 1,
     probes      |-> s.probes + 1,
     transient   |-> s.transient + (IF ConnectionOr5xx(o) THEN 1 ELSE 0),
     lastOutcome |-> o,
     firstOkAt   |-> IF succ /\ s.firstOkAt = 0 THEN s.attempt ELSE s.firstOkAt,
     sleeps      |-> s.sleeps + (IF SleepsAfter(s.attempt, MaxRetriesOf(v)) THEN 1 ELSE 0),
     result      |-> "none"]

\* Mutant of AttemptStep: a 5xx reply ends the verifier at once with False.
AttemptStepGivesUpOn5xx(v, o, succ) ==
    LET s == ver[v] IN
    [attempt     |-> IF succ THEN s.attempt ELSE s.attempt + 1,
     probes      |-> s.probes + 1,
     transient   |-> s.transient + (IF ConnectionOr5xx(o) THEN 1 ELSE 0),
     lastOutcome |-> o,
     firstOkAt   |-> IF succ /\ s.firstOkAt = 0 THEN s.attempt ELSE s.firstOkAt,
     sleeps      |-> s.sleeps,
     result      |-> IF succ THEN "true"
                     ELSE IF o.code >= 500 THEN "false" ELSE "none"]

\* One pass of the loop body of verifier v: the probe replied o, and the
\* verifier's test of o gave succ. On success the function returns True from
\* inside the loop; otherwise it sleeps if another attempt follows and the
\* loop variable advances.
AttemptStep(v, o, succ) ==
    LET s == ver[v] IN
    [attempt     |-> IF succ THEN s.attempt ELSE s.attempt + 1,
     probes      |-> s.probes + 1,
     transient   |-> s.transient + (IF ConnectionOr5xx(o) THEN 1 ELSE 0),
     lastOutcome |-> o,
     firstOkAt   |-> IF succ /\ s.firstOkAt = 0 THEN s.attempt ELSE s.firstOkAt,
     sleeps      |-> s.sleeps +
                     (IF ~succ /\ SleepsAfter(s.attempt, MaxRetriesOf(v)) THEN 1 ELSE 0),
     result      |-> IF succ THEN "true" ELSE "none"]

\* The loop has a pass left to make.
LoopRuns(v) == ver[v].result = "none" /\ ver[v].attempt \in AttemptRange(MaxRetriesOf(v))
\* The loop ran out of attempts: the code after it reports and returns False.
LoopOver(v) == ver[v].result = "none" /\ ver[v].attempt \notin AttemptRange(MaxRetriesOf(v))

-----------------------------------------------------------------------------
(* update_aws_deployment.py : the stage functions as functions of what the  *)
(* outside world replied. Each gives "true", "false" or "raise" (an         *)
(* exception no handler of the stage catches).                              *)

DOCKERHUB_USERNAME   == "faddah"
UsernamePlaceholder  == "your-dockerhub-username"

\* preflight_check: STS identity, `docker info`, the username, package.json
preflight_check(sts, docker, pkgIsFile) ==
    IF IsClientError(sts)                          THEN "false"
    ELSE IF sts # "ok"                             THEN "raise"
    ELSE IF run(docker) # "true"                   THEN run(docker)
    ELSE IF DOCKERHUB_USERNAME = UsernamePlaceholder THEN "false"
    ELSE IF ~pkgIsFile                             THEN "false"
    ELSE "true"

\* What stage 1 can find in package.json.
\*   "valid"        an object with a non-empty string version
\*   "blank"        version is "" or only white space
\*   "missing"      no version key
\*   "bad_json"     json.JSONDecodeError
\*   "unreadable"   OSError from open()
\*   "not_utf8"     the bytes of the file are not UTF-8: json.load raises
\*                  UnicodeDecodeError (a ValueError, neither of the two
\*                  exceptions the stage catches)
\*   "not_string"   valid JSON whose version (or top level) has no .strip/.get
PackageJsonKinds ==
    {"valid", "blank", "missing", "bad_json", "unreadable", "not_utf8",
     "not_string"}

stage_01_read_version(pkg) ==
    CASE pkg = "valid"      -> "true"
      [] pkg = "blank"      -> "false"
      [] pkg = "missing"    -> "false"
      [] pkg = "bad_json"   -> "false"
      [] pkg = "unreadable" -> "false"
      [] pkg = "not_utf8"   -> "raise"
      [] pkg = "not_string" -> "raise"

\* stages 2 and 3: one docker build through run()
stage_02_build_app_container(build)     == run(build)
stage_03_build_db_init_container(build) == run(build)

\* stage 4: docker login through run() (its reply is ignored, but run() can
\* raise), then tag, tag, push, push for each of the two images
Stage4Commands == 8
Stage4CommandList ==
    << "docker tag app", "docker tag app latest",
       "docker push app", "docker push app latest",
       "docker tag db-init", "docker tag db-init latest",
       "docker push db-init", "docker push db-init latest" >>
\* Mutant of stage_04_push_to_dockerhub: a failed login fails the stage.
stage_04_login_required(login, failAt, failKind) ==
    IF run(login) # "true" THEN run(login)
    ELSE CommandChain(Stage4Commands, failAt, failKind)

stage_04_push_to_dockerhub(login, failAt, failKind) ==
    IF run(login) = "raise" THEN "raise"
    ELSE CommandChain(Stage4Commands, failAt, failKind)

\* stage 5: get_authorization_token, then subprocess.run(docker login,
\* text=True, check=True), which returns or raises as the one inside
\* run() does; ClientError and CalledProcessError are caught
stage_05_ecr_auth(token, login) ==
    IF IsClientError(token)    THEN "false"
    ELSE IF token # "ok"       THEN "raise"
    ELSE run(login)

\* stage 6: build, tag, tag, push, push through run()
Stage6Commands == 5
Stage6CommandList ==
    << "docker buildx build lambda", "docker tag ecr", "docker tag ecr latest",
       "docker push ecr", "docker push ecr latest" >>
stage_06_build_and_push_ecr(failAt, failKind) ==
    CommandChain(Stage6Commands, failAt, failKind)

\* The image references a `docker push` of stage 6 put into ECR: ecr_tag by
\* the fourth command, ecr_latest by the fifth. A push that exited 0 put
\* its reference there, whatever run() did with its output afterwards.
PushedBy(log, tag) ==
    (IF \E m \in DOMAIN log :
            log[m].cmd = "docker push ecr" /\ ExitOf(log[m].outcome) = "zero"
       THEN {EcrTagOf(tag)} ELSE {})
    \cup (IF \E m \in DOMAIN log :
                 /\ log[m].cmd = "docker push ecr latest"
                 /\ ExitOf(log[m].outcome) = "zero"
            THEN {EcrTagOf("latest")} ELSE {})

\* stages 7 to 10: a sequence of boto3 calls inside
\* try / except ClientError / except Exception: every error returns False
AwsCallChain(n, failAt) == IF failAt = 0 \/ failAt > n THEN "true" ELSE "false"

Stage7Calls  == 5
Stage8Calls  == 2
Stage9Calls  == 2
Stage10Calls == 2
stage_07_update_lambda(failAt)         == AwsCallChain(Stage7Calls, failAt)
stage_08_verify_api_gateway(failAt)    == AwsCallChain(Stage8Calls, failAt)
stage_09_invalidate_cloudfront(failAt) == AwsCallChain(Stage9Calls, failAt)
stage_10_verify_route53(failAt)        == AwsCallChain(Stage10Calls, failAt)

-----------------------------------------------------------------------------
(* update_aws_deployment.py : UpdateDeployer.run and main *)

\* Mutant of NextStage: the loop skips every other stage.
NextStageSkips(c) == c + 2

\* `for label, fn in stages:` takes the stages in list order
NextStage(c) == c + 1

\* Mutant of NotOk: the stage's return value is ignored.
NotOkIgnored(okv) == FALSE

\* `if not ok:`
NotOk(okv) == okv # "true"

\* `return all_passed`
RunValue(passed) == IF passed THEN "true" ELSE "false"

\* Mutant of ExitStatus: the process always ends with status 0.
ExitStatusAlwaysZero(success) == 0

\* sys.exit(0 if success else 1)
ExitStatus(success) == IF success THEN 0 ELSE 1

\* Mutant of RunnerExternalCalls: the summary probes the live URL.
RunnerProbesInSummary(step) == IF step = "summary" THEN {"run"} ELSE {}

\* The external calls UpdateDeployer.run makes in its own statements (the
\* loop over the stages, the test of ok, the summary): it prints, nothing
\* else.
RunnerExternalCalls(step) == {}

\* A stage function returned (or raised): record it and hand `ok` to run().
StageEnds(k, res) ==
    /\ returned' = [returned EXCEPT ![k] = res]
    /\ ok' = IF res = "raise" THEN ok ELSE res
    /\ pc' = IF res = "raise" THEN "crashed" ELSE "check"

Preflight ==
    /\ script = "update" /\ pc = "start"
    /\ \E sts \in AwsOutcomes, docker \in RunOutcomes, pkgIsFile \in BOOLEAN :
         LET res == preflight_check(sts, docker, pkgIsFile) IN
         /\ pc' = CASE res = "true"  -> "loop"
                    [] res = "false" -> "returned"
                    [] res = "raise" -> "crashed"
         /\ runResult' = IF res = "false" THEN "false" ELSE runResult
         /\ cmdLog' = IF sts = "ok" THEN << RunEntry("docker info", docker) >>
                                    ELSE << >>
    /\ io' = io \cup {"preflight_check"}
    /\ UNCHANGED << provVars, pkgKind, obsVars, script, exitCode, cur, ok, invoked, returned, updVars,
                    ver, otherVars >>

\* for label, fn in stages: ok = fn()      (the call)
CallStage ==
    /\ script = "update" /\ pc = "loop" /\ cur < NumStages
    /\ cur' = NextStage(cur)
    /\ invoked' = Append(invoked, NextStage(cur))
    /\ pc' = "in_stage"
    /\ cmdLog' = << >>
    /\ io' = io \cup RunnerExternalCalls("loop")
    /\ UNCHANGED << provVars, pkgKind, obsVars, script, exitCode, ok, returned, runResult, updVars, ver,
                    otherVars >>

Stage01 ==
    /\ script = "update" /\ pc = "in_stage" /\ cur = 1
    /\ \E pkg \in PackageJsonKinds :
         /\ StageEnds(1, stage_01_read_version(pkg))
         /\ version'   = IF pkg = "valid" THEN PackageVersion ELSE version
         /\ image_tag' = IF pkg = "valid" THEN ImageTagOf(PackageVersion) ELSE image_tag
         /\ pkgKind' = pkg
    /\ UNCHANGED << provVars, cmdLog, io, obsVars, script, exitCode, cur, invoked, runResult, all_passed,
                    failed_at, ecr_image_uri, ver, otherVars >>

Stage02 ==
    /\ script = "update" /\ pc = "in_stage" /\ cur = 2
    /\ \E build \in RunOutcomes :
         /\ StageEnds(2, stage_02_build_app_container(build))
         /\ cmdLog' = << RunEntry("docker buildx build app", build) >>
    /\ io' = io \cup {StageLabel(2)}
    /\ UNCHANGED << provVars, pkgKind, obsVars, script, exitCode, cur, invoked, runResult, updVars, ver,
                    otherVars >>

Stage03 ==
    /\ script = "update" /\ pc = "in_stage" /\ cur = 3
    /\ \E build \in RunOutcomes :
         /\ StageEnds(3, stage_03_build_db_init_container(build))
         /\ cmdLog' = << RunEntry("docker build db-init", build) >>
    /\ io' = io \cup {StageLabel(3)}
    /\ UNCHANGED << provVars, pkgKind, obsVars, script, exitCode, cur, invoked, runResult, updVars, ver,
                    otherVars >>

Stage04 ==
    /\ script = "update" /\ pc = "in_stage" /\ cur = 4
    /\ \E login \in RunOutcomes, failAt \in 0 .. Stage4Commands,
          failKind \in RunFailKinds, warn \in SUBSET (1 .. Stage4Commands) :
         /\ StageEnds(4, stage_04_push_to_dockerhub(login, failAt, failKind))
         /\ cmdLog' = << RunEntry("docker login", login) >> \o
                        (IF run(login) = "raise" THEN << >>
                         ELSE ChainLog(Stage4CommandList, failAt, failKind, warn))
    /\ io' = io \cup {StageLabel(4)}
    /\ UNCHANGED << provVars, pkgKind, obsVars, script, exitCode, cur, invoked, runResult, updVars, ver,
                    otherVars >>

Stage05 ==
    /\ script = "update" /\ pc = "in_stage" /\ cur = 5
    /\ \E token \in AwsOutcomes, login \in RunOutcomes :
         StageEnds(5, stage_05_ecr_auth(token, login))
    /\ io' = io \cup {StageLabel(5)}
    /\ UNCHANGED << provVars, cmdLog, pkgKind, obsVars, script, exitCode, cur, invoked, runResult, updVars, ver,
                    otherVars >>

\* self.ecr_image_uri is assigned before the first command runs
Stage06 ==
    /\ script = "update" /\ pc = "in_stage" /\ cur = 6
    /\ ecr_image_uri' = EcrTagOf(image_tag)
    /\ \E failAt \in 0 .. Stage6Commands, failKind \in RunFailKinds,
          warn \in SUBSET (1 .. Stage6Commands) :
         /\ StageEnds(6, stage_06_build_and_push_ecr(failAt, failKind))
         /\ cmdLog' = ChainLog(Stage6CommandList, failAt, failKind, warn)
         /\ pushed' = pushed \cup
                PushedBy(ChainLog(Stage6CommandList, failAt, failKind, warn),
                         image_tag)
    /\ io' = io \cup {StageLabel(6)}
    /\ UNCHANGED << provVars, pkgKind, updated_image, lastStatus, files, files0, script, exitCode, cur, invoked, runResult, all_passed,
                    failed_at, version, image_tag, ver, otherVars >>

Stage07 ==
    /\ script = "update" /\ pc = "in_stage" /\ cur = 7
    /\ \E failAt \in 0 .. Stage7Calls : StageEnds(7, stage_07_update_lambda(failAt))
    /\ updated_image' = ecr_image_uri
    /\ io' = io \cup {StageLabel(7)}
    /\ UNCHANGED << provVars, cmdLog, pkgKind, pushed, lastStatus, files, files0, script, exitCode, cur, invoked, runResult, updVars, ver,
                    otherVars >>

Stage08 ==
    /\ script = "update" /\ pc = "in_stage" /\ cur = 8
    /\ \E failAt \in 0 .. Stage8Calls : StageEnds(8, stage_08_verify_api_gateway(failAt))
    /\ io' = io \cup {StageLabel(8)}
    /\ UNCHANGED << provVars, cmdLog, pkgKind, obsVars, script, exitCode, cur, invoked, runResult, updVars, ver,
                    otherVars >>

Stage09 ==
    /\ script = "update" /\ pc = "in_stage" /\ cur = 9
    /\ \E failAt \in 0 .. Stage9Calls : StageEnds(9, stage_09_invalidate_cloudfront(failAt))
    /\ io' = io \cup {StageLabel(9)}
    /\ UNCHANGED << provVars, cmdLog, pkgKind, obsVars, script, exitCode, cur, invoked, runResult, updVars, ver,
                    otherVars >>

Stage10 ==
    /\ script = "update" /\ pc = "in_stage" /\ cur = 10
    /\ \E failAt \in 0 .. Stage10Calls : StageEnds(10, stage_10_verify_route53(failAt))
    /\ io' = io \cup {StageLabel(10)}
    /\ UNCHANGED << provVars, cmdLog, pkgKind, obsVars, script, exitCode, cur, invoked, runResult, updVars, ver,
                    otherVars >>

\* stage 11: one pass of `for attempt in range(1, max_retries + 1)`
Stage11Attempt ==
    /\ script = "update" /\ pc = "in_stage" /\ cur = 11
    /\ LoopRuns("stage11")
    /\ \E o \in UrlopenOutcomes :
         LET succ == Stage11Succeeds(o) IN
         /\ ver' = [ver EXCEPT !["stage11"] = AttemptStep("stage11", o, succ)]
         /\ IF succ THEN StageEnds(11, "true")
                    ELSE UNCHANGED << returned, ok, pc >>
    /\ io' = io \cup {StageLabel(11)}
    /\ UNCHANGED << provVars, cmdLog, pkgKind, obsVars, script, exitCode, cur, invoked, runResult, updVars,
                    otherVars >>

\* stage 11: the code after the loop
Stage11GiveUp ==
    /\ script = "update" /\ pc = "in_stage" /\ cur = 11
    /\ LoopOver("stage11")
    /\ ver' = [ver EXCEPT !["stage11"].result = "false"]
    /\ StageEnds(11, "false")
    /\ UNCHANGED << provVars, histVars, script, exitCode, cur, invoked, runResult, updVars,
                    otherVars >>

Stage12Attempt ==
    /\ script = "update" /\ pc = "in_stage" /\ cur = 12
    /\ LoopRuns("stage12")
    /\ \E o \in UrlopenOutcomes :
         LET succ == Stage12Succeeds(o) IN
         /\ ver' = [ver EXCEPT !["stage12"] = AttemptStep("stage12", o, succ)]
         /\ IF succ THEN StageEnds(12, "true")
                    ELSE UNCHANGED << returned, ok, pc >>
    /\ io' = io \cup {StageLabel(12)}
    /\ UNCHANGED << provVars, cmdLog, pkgKind, obsVars, script, exitCode, cur, invoked, runResult, updVars,
                    otherVars >>

Stage12GiveUp ==
    /\ script = "update" /\ pc = "in_stage" /\ cur = 12
    /\ LoopOver("stage12")
    /\ ver' = [ver EXCEPT !["stage12"].result = "false"]
    /\ StageEnds(12, "false")
    /\ UNCHANGED << provVars, histVars, script, exitCode, cur, invoked, runResult, updVars,
                    otherVars >>

\* ... if not ok: all_passed = False; failed_at = label; break
CheckStage ==
    /\ script = "update" /\ pc = "check"
    /\ IF NotOk(ok)
         THEN /\ all_passed' = FALSE
              /\ failed_at' = StageLabel(cur)
              /\ pc' = "summary"
         ELSE /\ UNCHANGED << all_passed, failed_at >>
              /\ pc' = IF cur < NumStages THEN "loop" ELSE "summary"
    /\ io' = io \cup RunnerExternalCalls("check")
    /\ UNCHANGED << provVars, cmdLog, pkgKind, obsVars, script, exitCode, cur, ok, invoked, returned, runResult,
                    version, image_tag, ecr_image_uri, ver, otherVars >>

\* the summary is printed and run() returns all_passed
RunReturns ==
    /\ script = "update" /\ pc = "summary"
    /\ runResult' = RunValue(all_passed)
    /\ pc' = "returned"
    /\ io' = io \cup RunnerExternalCalls("summary")
    /\ UNCHANGED << provVars, cmdLog, pkgKind, obsVars, script, exitCode, cur, ok, invoked, returned, updVars, ver,
                    otherVars >>

\* main: sys.exit(0 if success else 1)
UpdateMainExits ==
    /\ script = "update" /\ pc = "returned"
    /\ exitCode' = ExitStatus(runResult = "true")
    /\ pc' = "exited"
    /\ UNCHANGED << provVars, histVars, script, cur, ok, invoked, returned, runResult, updVars,
                    ver, otherVars >>

\* An exception nothing catches leaves main: the interpreter prints the
\* traceback and the process ends with status 1.
UncaughtException ==
    /\ pc = "crashed"
    /\ exitCode' = 1
    /\ pc' = "exited"
    /\ UNCHANGED << provVars, histVars, script, cur, ok, invoked, returned, runResult, updVars,
                    ver, otherVars >>

-----------------------------------------------------------------------------
(* Create-or-reuse provisioners: what the create call can reply *)

\* "ok" created; "AlreadyExists" the service's already-exists error code
\* (RepositoryAlreadyExistsException, EntityAlreadyExists,
\* ResourceConflictException); "ClientError" any other ClientError;
\* "OtherError" any other exception.
CreateOutcomes == {"ok", "AlreadyExists", "ClientError", "OtherError"}

-----------------------------------------------------------------------------
(* deploy_to_lambda.py : LambdaDeployer *)

LambdaSteps == 6

S3_BUCKET_NAME  == "code-canvas-astro-db"
LambdaEcrUri    == "415740581749.dkr.ecr.us-west-2.amazonaws.com/python-repl-container-lambda"
LambdaImageTag  == "v1.2"
LambdaFnArn     == "arn:aws:lambda:us-west-2:415740581749:function:code-canvas-astro-lambda"
LambdaFnUrl     == "https://code-canvas-astro-lambda.lambda-url.us-west-2.on.aws/"

\* Every step function wraps its body in try / except Exception and returns
\* False or None on an error of its calls; an exception raised inside one
\* of its handlers leaves the step function ("raise").

\* head_bucket: the bucket exists, a 404 ClientError, or any other error
HeadBucketOutcomes == {"exists", "404", "403", "OtherError"}
S3CreateCalls == 4
LambdaDeployer_create_s3_bucket(head, failAt) ==
    CASE head = "exists" -> "true"
      [] head = "404"    -> AwsCallChain(S3CreateCalls, failAt)
      [] OTHER           -> "false"

LambdaDeployer_create_ecr_repository(create, describe) ==
    CASE create = "ok"            -> "true"
      [] create = "AlreadyExists" -> IF describe = "ok" THEN "true" ELSE "false"
      [] OTHER                    -> "false"

\* docker login, build, tag, push through
\* subprocess.run(check=True, capture_output=True): the output is kept as
\* bytes. How a command can fail: the non-zero exits, and OSError.
LambdaDockerCommands == 4
LambdaDockerFailKinds ==
    {"nonzero", "nonzero_quiet", "nonzero_blank", "nonzero_badutf8", "oserror"}

\* `except CalledProcessError` decodes e.stderr (when there is any) and
\* returns False; a stderr that is not UTF-8 makes the handler raise
\* UnicodeDecodeError. `except Exception` turns an OSError into False.
LambdaDeployer_build_and_push_docker_image(failAt, failKind) ==
    IF failAt = 0 \/ failAt > LambdaDockerCommands THEN "true"
    ELSE IF failKind = "nonzero_badutf8" THEN "raise"
    ELSE "false"

\* create_role then attach_role_policy, put_role_policy; or, when the role
\* exists, get_role then put_role_policy
RoleFollowUpCalls == 2
LambdaDeployer_create_lambda_execution_role(create, failAt) ==
    CASE create \in {"ok", "AlreadyExists"} -> AwsCallChain(RoleFollowUpCalls, failAt)
      [] OTHER                              -> "false"

\* create_function; or, when it exists, update_function_code, wait,
\* update_function_configuration, wait, get_function
FunctionUpdateCalls == 5
LambdaDeployer_create_or_update_lambda_function(create, failAt) ==
    CASE create = "ok"            -> "true"
      [] create = "AlreadyExists" -> AwsCallChain(FunctionUpdateCalls, failAt)
      [] OTHER                    -> "false"

\* create_function_url_config then add_permission (whose
\* ResourceConflictException is swallowed); or, when the URL exists,
\* get_function_url_config
LambdaDeployer_create_function_url(create, follow) ==
    CASE create = "ok"            -> IF follow \in {"ok", "AlreadyExists"}
                                       THEN "true" ELSE "false"
      [] create = "AlreadyExists" -> IF follow = "ok" THEN "true" ELSE "false"
      [] OTHER                    -> "false"

\* deployment_result["failed_step"] written by the `if not ...:` of step k
LambdaStepName(k) ==
    CASE k = 1 -> "S3 Bucket"
      [] k = 2 -> "ECR Repository"
      [] k = 3 -> "Docker Build"
      [] k = 4 -> "IAM Role"
      [] k = 5 -> "Lambda Function"
      [] k = 6 -> "Function URL"

LambdaResultInit ==
    [success |-> FALSE, s3_bucket |-> None, ecr_repository |-> None,
     image_uri |-> None, function_arn |-> None, function_url |-> None,
     failed_step |-> None, error |-> None]

\* deployment_result after step k succeeded
LambdaResultAfter(d, k) ==
    CASE k = 1 -> [d EXCEPT !.s3_bucket = S3_BUCKET_NAME]
      [] k = 2 -> [d EXCEPT !.ecr_repository = LambdaEcrUri]
      [] k = 3 -> [d EXCEPT !.image_uri = LambdaEcrUri \o ":" \o LambdaImageTag]
      [] k = 4 -> d
      [] k = 5 -> [d EXCEPT !.function_arn = LambdaFnArn]
      [] k = 6 -> [d EXCEPT !.function_url = LambdaFnUrl, !.success = TRUE]

\* except Exception as e: deployment_result["error"] = str(e); return
LambdaCaught(d) == [d EXCEPT !.error = "str(e)"]

\* The k-th block of deploy(): call the step; when it raises, `except
\* Exception` records the error and returns deployment_result; on a falsy
\* reply record failed_step and return deployment_result; otherwise store
\* the handle and go on (the last block sets success and returns).
LambdaBlock(k, res) ==
    /\ script = "lambda" /\ pc = "start" /\ cur = k - 1
    /\ cur' = k
    /\ invoked' = Append(invoked, k)
    /\ returned' = [returned EXCEPT ![k] = res]
    /\ IF res = "raise"
         THEN /\ deployment_result' = LambdaCaught(deployment_result)
              /\ pc' = "returned"
              /\ runResult' = "false"
         ELSE IF NotOk(res)
         THEN /\ deployment_result' = [deployment_result EXCEPT !.failed_step = LambdaStepName(k)]
              /\ pc' = "returned"
              /\ runResult' = "false"
         ELSE /\ deployment_result' = LambdaResultAfter(deployment_result, k)
              /\ pc' = IF k = LambdaSteps THEN "returned" ELSE "start"
              /\ runResult' = IF k = LambdaSteps THEN "true" ELSE runResult
    /\ UNCHANGED << provVars, histVars, script, exitCode, ok, updVars, ver, max_retries, polls,
                    firstStatus >>

LambdaStep1 ==
    \E head \in HeadBucketOutcomes, failAt \in 0 .. S3CreateCalls :
        LambdaBlock(1, LambdaDeployer_create_s3_bucket(head, failAt))
LambdaStep2 ==
    \E create \in CreateOutcomes, describe \in AwsOutcomes :
        LambdaBlock(2, LambdaDeployer_create_ecr_repository(create, describe))
LambdaStep3 ==
    \E failAt \in 0 .. LambdaDockerCommands, failKind \in LambdaDockerFailKinds :
        LambdaBlock(3, LambdaDeployer_build_and_push_docker_image(failAt, failKind))
LambdaStep4 ==
    \E create \in CreateOutcomes, failAt \in 0 .. RoleFollowUpCalls :
        LambdaBlock(4, LambdaDeployer_create_lambda_execution_role(create, failAt))
LambdaStep5 ==
    \E create \in CreateOutcomes, failAt \in 0 .. FunctionUpdateCalls :
        LambdaBlock(5, LambdaDeployer_create_or_update_lambda_function(create, failAt))
LambdaStep6 ==
    \E create \in CreateOutcomes, follow \in CreateOutcomes :
        LambdaBlock(6, LambdaDeployer_create_function_url(create, follow))

\* main: sys.exit(0) if result["success"] else sys.exit(1)
LambdaMainExits ==
    /\ script = "lambda" /\ pc = "returned"
    /\ exitCode' = ExitStatus(deployment_result.success)
    /\ pc' = "exited"
    /\ UNCHANGED << provVars, histVars, script, cur, ok, invoked, returned, runResult, updVars,
                    ver, otherVars >>

-----------------------------------------------------------------------------
(* deploy_to_apprunner.py : AppRunnerDeployer *)

\* The calls deploy() can make, numbered in the order of the declared steps
\* "Step k/7". Step 6 makes two calls; step 5 declares the EFS file system.
ArActionName(a) ==
    CASE a = 1 -> "create_ecr_repository"
      [] a = 2 -> "build_and_push_docker_image"
      [] a = 3 -> "get_default_vpc_and_subnets"
      [] a = 4 -> "create_security_group"
      [] a = 5 -> "create_efs_file_system"
      [] a = 6 -> "create_access_role"
      [] a = 7 -> "create_instance_role"
      [] a = 8 -> "create_or_update_app_runner_service"

ArActions       == 8
ArDeclaredSteps == 7

\* The call(s) that make up the action of declared step k.
ArStepActions(k) ==
    CASE k = 1 -> {1}
      [] k = 2 -> {2}
      [] k = 3 -> {3}
      [] k = 4 -> {4}
      [] k = 5 -> {5}
      [] k = 6 -> {6, 7}
      [] k = 7 -> {8}

\* The run-context fields (attributes of self, None after __init__): the
\* ones call a assigns,
ArWrites(a) ==
    CASE a = 1 -> {"image_uri"}
      [] a = 3 -> {"vpc_id"}
      [] a = 4 -> {"security_group_id"}
      [] a = 5 -> {"efs_id"}
      [] OTHER -> {}
\* and the ones call a reads without having assigned them itself.
ArReads(a) ==
    CASE a = 2 -> {"image_uri"}
      [] a = 4 -> {"vpc_id"}
      [] a = 5 -> {"security_group_id"}
      [] a = 7 -> {"efs_id"}
      [] a = 8 -> {"image_uri"}
      [] OTHER -> {}

ArEcrUri     == "415740581749.dkr.ecr.us-west-2.amazonaws.com/python-repl-container-lambda"
ArImageTag   == "v1.2"
ArServiceUrl == "https://python-repl-app.us-west-2.awsapprunner.com"

\* The step functions of this class re-raise every error: "true" or "raise".
AppRunnerDeployer_create_ecr_repository(create, describe) ==
    CASE create = "ok"            -> "true"
      [] create = "AlreadyExists" -> IF describe = "ok" THEN "true" ELSE "raise"
      [] OTHER                    -> "raise"

ArDockerCommands == 4
AppRunnerDeployer_build_and_push_docker_image(failAt) ==
    IF failAt = 0 THEN "true" ELSE "raise"

\* describe_vpcs, then describe_subnets. "NotFound" is an empty list in
\* the answer: `if not vpcs["Vpcs"]` raises; an empty list of subnets is
\* not tested and is returned like any other. Every error is raised.
AppRunnerDeployer_get_default_vpc_and_subnets(vpcs, subnets) ==
    IF vpcs = "ok" /\ subnets \in {"ok", "NotFound"} THEN "true" ELSE "raise"

\* describe_security_groups; when none matches, create_security_group and
\* authorize_security_group_ingress
SgCreateCalls == 2
AppRunnerDeployer_create_security_group(describe, failAt) ==
    CASE describe = "ok"       -> "true"
      [] describe = "NotFound" -> IF failAt = 0 THEN "true" ELSE "raise"
      [] OTHER                 -> "raise"

\* create_role and its policy call; or get_role when the role exists
AppRunnerDeployer_create_access_role(create, follow) ==
    IF create \in {"ok", "AlreadyExists"} /\ follow = "ok" THEN "true" ELSE "raise"

AppRunnerDeployer_create_instance_role(create, follow) ==
    IF create \in {"ok", "AlreadyExists"} /\ follow = "ok" THEN "true" ELSE "raise"

\* create_or_update_app_runner_service up to the status poll:
\* describe_service and update_service in one try; when either raises a
\* ClientError with code ResourceNotFoundException ("NotFound"),
\* create_service; every other error, and every error of create_service,
\* is raised.
ServiceRequest(describe, update, create) ==
    CASE describe = "ok" /\ update = "ok" -> "true"
      [] describe = "ok" /\ update = "NotFound" ->
             IF create = "ok" THEN "true" ELSE "raise"
      [] describe = "NotFound" ->
             IF create = "ok" THEN "true" ELSE "raise"
      [] OTHER -> "raise"

\* The status poll.
MaxPollAttempts == 60
AppRunnerStatuses ==
    {"RUNNING", "OPERATION_IN_PROGRESS", "PAUSED",
     "CREATE_FAILED", "UPDATE_FAILED", "DELETE_FAILED"}
\* What a describe_service poll can give: a status, or a ClientError.
PollReplies == AppRunnerStatuses \cup {"ClientError"}

\* Mutant of PollVerdict: UPDATE_FAILED is not taken as a failure.
PollVerdictMissesUpdate(status) ==
    CASE status = "RUNNING" -> "return"
      [] status \in {"CREATE_FAILED", "DELETE_FAILED"} -> "raise"
      [] status = "ClientError" -> "raise"
      [] OTHER -> "wait"

\* Mutant of PollVerdict: RUNNING is waited on like any other status.
PollVerdictWaitsOnRunning(status) ==
    CASE status \in {"CREATE_FAILED", "UPDATE_FAILED", "DELETE_FAILED"} -> "raise"
      [] status = "ClientError" -> "raise"
      [] OTHER -> "wait"

\* One pass of `while attempt < max_attempts`: return the service, raise,
\* or sleep and count the attempt.
PollVerdict(status) ==
    CASE status = "RUNNING" -> "return"
      [] status \in {"CREATE_FAILED", "UPDATE_FAILED", "DELETE_FAILED"} -> "raise"
      [] status = "ClientError" -> "raise"
      [] OTHER -> "wait"

ArResultInit ==
    [success |-> FALSE, ecr_repository |-> None, image_uri |-> None,
     efs_id |-> None, service_url |-> None, errors |-> << >>]

\* deployment_result after call a returned
ArResultAfter(d, a) ==
    CASE a = 1 -> [d EXCEPT !.ecr_repository = ArEcrUri]
      [] a = 2 -> [d EXCEPT !.image_uri = ArEcrUri \o ":" \o ArImageTag]
      [] a = 8 -> [d EXCEPT !.service_url = ArServiceUrl, !.success = TRUE]
      [] OTHER -> d

\* except Exception as e: deployment_result["errors"].append(str(e)); return
ArCaught(d, a) == [d EXCEPT !.errors = Append(@, ArActionName(a))]

\* Call a of deploy(), for the calls that are one step of the model.
ArCall(a, res) ==
    /\ script = "apprunner" /\ pc = "start" /\ cur = a - 1
    /\ cur' = a
    /\ invoked' = Append(invoked, a)
    /\ returned' = [returned EXCEPT ![a] = res]
    /\ IF res = "raise"
         THEN /\ deployment_result' = ArCaught(deployment_result, a)
              /\ pc' = "returned"
              /\ runResult' = "false"
         ELSE /\ deployment_result' = ArResultAfter(deployment_result, a)
              /\ pc' = "start"
              /\ UNCHANGED runResult
    /\ UNCHANGED << provVars, histVars, script, exitCode, ok, updVars, ver, max_retries, polls,
                    firstStatus >>

ArStep1 ==
    \E create \in CreateOutcomes, describe \in AwsOutcomes :
        ArCall(1, AppRunnerDeployer_create_ecr_repository(create, describe))
ArStep2 ==
    \E failAt \in 0 .. ArDockerCommands :
        ArCall(2, AppRunnerDeployer_build_and_push_docker_image(failAt))
ArStep3 ==
    \E vpcs \in AwsOutcomes, subnets \in AwsOutcomes :
        ArCall(3, AppRunnerDeployer_get_default_vpc_and_subnets(vpcs, subnets))
ArStep4 ==
    \E describe \in AwsOutcomes, failAt \in 0 .. SgCreateCalls :
        ArCall(4, AppRunnerDeployer_create_security_group(describe, failAt))

\* "Step 5/7: EFS File System": the header and a note are printed; the call
\* of create_efs_file_system is commented out.
ArStep5 ==
    /\ script = "apprunner" /\ pc = "start" /\ cur = 4
    /\ cur' = 5
    /\ UNCHANGED << provVars, histVars, script, pc, exitCode, ok, invoked, returned, runResult,
                    updVars, ver, otherVars >>

ArStep6Access ==
    \E create \in CreateOutcomes, follow \in AwsOutcomes :
        ArCall(6, AppRunnerDeployer_create_access_role(create, follow))
ArStep6Instance ==
    \E create \in CreateOutcomes, follow \in AwsOutcomes :
        ArCall(7, AppRunnerDeployer_create_instance_role(create, follow))

\* Step 7: the service is created or updated; the status poll follows.
ArStep7Request ==
    /\ script = "apprunner" /\ pc = "start" /\ cur = 7
    /\ cur' = 8
    /\ invoked' = Append(invoked, 8)
    /\ \E describe \in AwsOutcomes, update \in AwsOutcomes, create \in AwsOutcomes :
         IF ServiceRequest(describe, update, create) = "raise"
           THEN /\ returned' = [returned EXCEPT ![8] = "raise"]
                /\ deployment_result' = ArCaught(deployment_result, 8)
                /\ pc' = "returned"
                /\ runResult' = "false"
           ELSE /\ pc' = "polling"
                /\ UNCHANGED << returned, deployment_result, runResult >>
    /\ UNCHANGED << provVars, histVars, script, exitCode, ok, updVars, ver, max_retries, polls,
                    firstStatus >>

ArPoll ==
    /\ script = "apprunner" /\ pc = "polling" /\ polls < MaxPollAttempts
    /\ \E status \in PollReplies :
         /\ polls' = polls + 1
         /\ firstStatus' = IF polls = 0 THEN status ELSE firstStatus
         /\ CASE PollVerdict(status) = "return" ->
                   /\ returned' = [returned EXCEPT ![8] = "true"]
                   /\ deployment_result' = ArResultAfter(deployment_result, 8)
                   /\ pc' = "returned"
                   /\ runResult' = "true"
              [] PollVerdict(status) = "raise" ->
                   /\ returned' = [returned EXCEPT ![8] = "raise"]
                   /\ deployment_result' = ArCaught(deployment_result, 8)
                   /\ pc' = "returned"
                   /\ runResult' = "false"
              [] OTHER ->
                   UNCHANGED << returned, deployment_result, pc, runResult >>
         /\ lastStatus' = status
    /\ UNCHANGED << provVars, cmdLog, pkgKind, io, pushed, updated_image, files,
                    files0, script, exitCode, cur, ok, invoked, updVars, ver,
                    max_retries >>

\* raise Exception("Service deployment timeout")
ArPollTimeout ==
    /\ script = "apprunner" /\ pc = "polling" /\ ~(polls < MaxPollAttempts)
    /\ returned' = [returned EXCEPT ![8] = "raise"]
    /\ deployment_result' = ArCaught(deployment_result, 8)
    /\ pc' = "returned"
    /\ runResult' = "false"
    /\ UNCHANGED << provVars, histVars, script, exitCode, cur, ok, invoked, updVars, ver,
                    max_retries, polls, firstStatus >>

\* main: sys.exit(0) if result["success"] else sys.exit(1)
ArMainExits ==
    /\ script = "apprunner" /\ pc = "returned"
    /\ exitCode' = ExitStatus(deployment_result.success)
    /\ pc' = "exited"
    /\ UNCHANGED << provVars, histVars, script, cur, ok, invoked, returned, runResult, updVars,
                    ver, otherVars >>

-----------------------------------------------------------------------------
(* deploy_lambda.py : AWSDeployer *)

AwsDeployerSteps == 5

\* The step functions re-raise every error ("raise"); a failed docker
\* command makes build_and_push_docker_image call sys.exit(1) ("exit").
AWSDeployer_create_ecr_repository(create, follow) ==
    CASE create \in {"ok", "AlreadyExists"} -> IF follow = "ok" THEN "true" ELSE "raise"
      [] OTHER                              -> "raise"

\* The docker commands go through subprocess.run(check=True) with no
\* capture: only the exit status of the command counts.
AWSDeployer_build_and_push_docker_image(token, docker) ==
    IF token # "ok" THEN "raise"
    ELSE CASE ExitOf(docker) = "zero"    -> "true"
           [] ExitOf(docker) = "nonzero" -> "exit"
           [] ExitOf(docker) = "none"    -> "raise"

\* The three files of DOCKER_CONTEXT the function touches, each "absent"
\* or its content.
NoFiles ==
    [dockerignore |-> "absent", lambda |-> "absent", backup |-> "absent"]
FileStates ==
    [dockerignore : {"absent", "general rules"},
     lambda       : {"absent", "lambda rules"},
     backup       : {"absent", "stale backup"}]

\* if os.path.exists(.dockerignore): copy it to .dockerignore.backup
BackupDockerignore(f) ==
    IF f.dockerignore # "absent" THEN [f EXCEPT !.backup = f.dockerignore] ELSE f

\* if os.path.exists(.dockerignore.lambda): copy it to .dockerignore
UseLambdaDockerignore(f) ==
    IF f.lambda # "absent" THEN [f EXCEPT !.dockerignore = f.lambda] ELSE f

\* finally: if dockerignore_backup: copy it to .dockerignore and remove it
RestoreDockerignore(f, dockerignore_backup) ==
    IF dockerignore_backup
      THEN [f EXCEPT !.dockerignore = f.backup, !.backup = "absent"]
      ELSE f

\* login, build, tag and push through subprocess.run(check=True)
AdDockerCommands == 4

\* The files after the call: the file operations are reached when the token
\* call and the docker login (command 1) succeeded; the `finally` runs
\* whether the build (command 2) succeeded or failed.
FilesAfterBuild(f, token, failAt) ==
    IF token = "ok" /\ failAt # 1
      THEN RestoreDockerignore(UseLambdaDockerignore(BackupDockerignore(f)),
                               f.dockerignore # "absent")
      ELSE f

AWSDeployer_create_lambda_execution_role(create, follow) ==
    CASE create \in {"ok", "AlreadyExists"} -> IF follow = "ok" THEN "true" ELSE "raise"
      [] OTHER                              -> "raise"

AWSDeployer_create_lambda_function(create, follow) ==
    CASE create = "ok"            -> "true"
      [] create = "AlreadyExists" -> IF follow = "ok" THEN "true" ELSE "raise"
      [] OTHER                    -> "raise"

AWSDeployer_create_function_url(create, follow) ==
    CASE create = "ok"            -> IF follow \in {"ok", "AlreadyExists"}
                                       THEN "true" ELSE "raise"
      [] create = "AlreadyExists" -> IF follow = "ok" THEN "true" ELSE "raise"
      [] OTHER                    -> "raise"

\* Step k of deploy(). An exception reaches `except Exception:` and
\* sys.exit(1); sys.exit(1) inside a step is not an Exception and leaves
\* deploy() as it is.
AdBlock(k, res) ==
    /\ script = "awsdeployer" /\ pc = "start" /\ cur = k - 1
    /\ cur' = k
    /\ invoked' = Append(invoked, k)
    /\ returned' = [returned EXCEPT ![k] = IF res = "exit" THEN "raise" ELSE res]
    /\ IF res = "true"
         THEN /\ pc' = IF k = AwsDeployerSteps THEN "returned" ELSE "start"
              /\ runResult' = IF k = AwsDeployerSteps THEN "true" ELSE runResult
              /\ UNCHANGED exitCode
         ELSE /\ pc' = "exited"
              /\ runResult' = "false"
              /\ exitCode' = 1
    /\ UNCHANGED << provVars, cmdLog, pkgKind, io, pushed, updated_image,
                    lastStatus, files0, script, ok, updVars, ver, otherVars >>

AdStep1 ==
    /\ \E create \in CreateOutcomes, follow \in AwsOutcomes :
         AdBlock(1, AWSDeployer_create_ecr_repository(create, follow))
    /\ UNCHANGED files
AdStep2 ==
    \E token \in AwsOutcomes, failAt \in 0 .. AdDockerCommands,
       docker \in { o \in RunOutcomes : ExitOf(o) # "zero" } :
        /\ AdBlock(2, AWSDeployer_build_and_push_docker_image(
                          token, IF failAt = 0 THEN "ok" ELSE docker))
        /\ files' = FilesAfterBuild(files, token, failAt)
AdStep3 ==
    /\ \E create \in CreateOutcomes, follow \in AwsOutcomes :
         AdBlock(3, AWSDeployer_create_lambda_execution_role(create, follow))
    /\ UNCHANGED files
AdStep4 ==
    /\ \E create \in CreateOutcomes, follow \in AwsOutcomes :
         AdBlock(4, AWSDeployer_create_lambda_function(create, follow))
    /\ UNCHANGED files
AdStep5 ==
    /\ \E create \in CreateOutcomes, follow \in CreateOutcomes :
         AdBlock(5, AWSDeployer_create_function_url(create, follow))
    /\ UNCHANGED files

\* deploy() printed the summary and returned; main returns and the
\* interpreter ends with status 0.
AdMainReturns ==
    /\ script = "awsdeployer" /\ pc = "returned"
    /\ exitCode' = 0
    /\ pc' = "exited"
    /\ UNCHANGED << provVars, histVars, script, cur, ok, invoked, returned, runResult, updVars,
                    ver, otherVars >>

-----------------------------------------------------------------------------
(* aws_route53_cloudfront_deploy.py : verify_deployment *)

VerifyAttempt ==
    /\ script = "verify" /\ pc = "start"
    /\ LoopRuns("verify")
    /\ \E o \in RequestsOutcomes :
         LET succ == VerifySucceeds(o) IN
         /\ ver' = [ver EXCEPT !["verify"] = AttemptStep("verify", o, succ)]
         /\ pc' = IF succ THEN "returned" ELSE pc
         /\ runResult' = IF succ THEN "true" ELSE runResult
    /\ UNCHANGED << provVars, histVars, script, exitCode, cur, ok, invoked, returned, updVars,
                    otherVars >>

\* the code after the loop: print the failure and return False
VerifyGiveUp ==
    /\ script = "verify" /\ pc = "start"
    /\ LoopOver("verify")
    /\ ver' = [ver EXCEPT !["verify"].result = "false"]
    /\ pc' = "returned"
    /\ runResult' = "false"
    /\ UNCHANGED << provVars, histVars, script, exitCode, cur, ok, invoked, returned, updVars,
                    otherVars >>

-----------------------------------------------------------------------------
(* The step functions that create or reuse an AWS resource, run against an  *)
(* AWS account that remembers what was created in it.                       *)

\* The kinds of resource; of each kind the scripts name exactly one.
ResourceKinds ==
    {"bucket", "repo", "role", "function", "url", "sg", "api", "zone"}

\* A resource: whether it exists, how many times one of that name was
\* created, and the configuration applied to it.
NoResource == [exists |-> FALSE, serial |-> 0, cfg |-> {}]
AwsEmpty   == [k \in ResourceKinds |-> NoResource]

\* The boto3 calls: the kind of resource a call is about, and what it does:
\* "create" it, "read" it, "list" the ones that match a filter, "config"ure
\* one item of it; a "plain" call depends on no resource.
ApiKind(api) ==
    CASE api \in {"head_bucket", "create_bucket", "put_bucket_versioning",
                  "put_bucket_encryption", "put_bucket_tagging"} -> "bucket"
      [] api \in {"create_repository", "describe_repositories",
                  "tag_resource"} -> "repo"
      [] api \in {"create_role", "attach_role_policy", "get_role"} -> "role"
      [] api \in {"create_function", "update_function_code",
                  "get_function"} -> "function"
      [] api \in {"create_function_url_config", "add_permission",
                  "get_function_url_config"} -> "url"
      [] api \in {"describe_security_groups", "create_security_group",
                  "authorize_security_group_ingress"} -> "sg"
      [] api \in {"update_function_configuration",
                  "wait_function_updated"} -> "function"
      [] api \in {"get_rest_api", "get_stages"} -> "api"
      [] api \in {"get_hosted_zone", "list_resource_record_sets"} -> "zone"
      [] OTHER -> "none"

ApiType(api) ==
    CASE api \in {"create_bucket", "create_repository", "create_role",
                  "create_function", "create_function_url_config",
                  "create_security_group"} -> "create"
      [] api \in {"head_bucket", "describe_repositories", "get_role",
                  "get_function", "get_function_url_config",
                  "wait_function_updated", "get_rest_api", "get_stages",
                  "get_hosted_zone", "list_resource_record_sets"} -> "read"
      [] api = "describe_security_groups" -> "list"
      [] api \in {"get_authorization_token", "docker_login"} -> "plain"
      [] OTHER -> "config"

\* The configuration item a "config" call applies.
ApiItem(api) ==
    CASE api = "put_bucket_versioning" -> "versioning"
      [] api = "put_bucket_encryption" -> "encryption"
      [] api = "put_bucket_tagging"    -> "tags"
      [] api = "tag_resource"          -> "tags"
      [] api = "attach_role_policy"    -> "policy"
      [] api = "update_function_code"  -> "code"
      [] api = "update_function_configuration" -> "settings"
      [] api = "add_permission"        -> "public-invoke"
      [] api = "authorize_security_group_ingress" -> "nfs-ingress"
      [] OTHER -> "none"

\* The error code of a create call when the name is taken,
AlreadyExistsCode(k) ==
    CASE k = "bucket"   -> "BucketAlreadyOwnedByYou"
      [] k = "repo"     -> "RepositoryAlreadyExistsException"
      [] k = "role"     -> "EntityAlreadyExists"
      [] k = "function" -> "ResourceConflictException"
      [] k = "url"      -> "ResourceConflictException"
      [] k = "sg"       -> "InvalidGroup.Duplicate"
      [] k = "api"      -> "ConflictException"
      [] k = "zone"     -> "HostedZoneAlreadyExists"
\* and of a read or config call when there is no such resource.
NotFoundCode(k) ==
    CASE k = "bucket"   -> "404"
      [] k = "repo"     -> "RepositoryNotFoundException"
      [] k = "role"     -> "NoSuchEntity"
      [] k = "function" -> "ResourceNotFoundException"
      [] k = "url"      -> "ResourceNotFoundException"
      [] k = "sg"       -> "InvalidGroup.NotFound"
      [] k = "api"      -> "NotFoundException"
      [] k = "zone"     -> "NoSuchHostedZone"

\* What the account answers to a call: "ok", "empty" (a list call that
\* matched nothing), or a ClientError code.
Reply(st, api) ==
    LET k == ApiKind(api) IN
    CASE ApiType(api) = "create" ->
             IF st[k].exists THEN AlreadyExistsCode(k) ELSE "ok"
      [] ApiType(api) = "read" ->
             IF st[k].exists THEN "ok" ELSE NotFoundCode(k)
      [] ApiType(api) = "list" ->
             IF st[k].exists THEN "ok" ELSE "empty"
      [] ApiType(api) = "config" ->
             IF ~st[k].exists THEN NotFoundCode(k)
             ELSE IF api = "add_permission" /\ ApiItem(api) \in st[k].cfg
                    THEN "ResourceConflictException"
                    ELSE "ok"
      [] OTHER -> "ok"

\* The account after a call that was answered "ok". The request of
\* create_function carries the image and the timeout, memory and
\* environment, so the function is created with its code and its settings.
Effect(st, api) ==
    LET k == ApiKind(api) IN
    CASE ApiType(api) = "create" ->
             [st EXCEPT ![k] = [exists |-> TRUE, serial |-> @.serial + 1,
                                cfg |-> IF api = "create_function"
                                          THEN {"code", "settings"} ELSE {}]]
      [] ApiType(api) = "config" ->
             [st EXCEPT ![k].cfg = @ \cup {ApiItem(api)}]
      [] OTHER -> st

\* Errors that do not depend on the resource: the credentials lack the
\* right (ClientError AccessDenied; head_bucket reports it as code 403), or
\* the endpoint cannot be reached (no ClientError). A fault makes the
\* at-th call of one run of the step function fail; at = 0: none does.
AwsFaultCodes == {"AccessDenied", "403", "ConnectionError"}
\* What subprocess.run(docker login, text=True, check=True) can raise: the
\* command exited non-zero, docker could not be started, or its output
\* was not UTF-8.
DockerFaultCodes ==
    {"CalledProcessError", "FileNotFoundError", "UnicodeDecodeError"}
FaultCodes == AwsFaultCodes \cup DockerFaultCodes
NoFault    == [at |-> 0, code |-> "AccessDenied"]

\* `except ClientError`: everything the account answers except "ok" and
\* "empty" is a ClientError; of the faults, ConnectionError and the
\* exceptions of subprocess.run are not.
IsClientErrorCode(code) ==
    code \notin {"ok", "empty", "ConnectionError"} \cup DockerFaultCodes

\* The exception a fault makes the call raise. A docker login that is
\* refused or cannot reach the registry exits non-zero
\* (CalledProcessError).
FaultReply(api, f) ==
    IF api = "docker_login" /\ f.code \in AwsFaultCodes
      THEN "CalledProcessError" ELSE f.code

\* The fault can happen at this call: subprocess.run raises the docker
\* exceptions, boto3 the others.
FaultFits(api, f) ==
    f.code \in DockerFaultCodes => api = "docker_login"

\* One call made by a step function. x carries the account, the calls of
\* this run so far (name and answer), and the fault of this run.
Do(x, api) ==
    CHOOSE y \in
        { [st    |-> IF code = "ok" THEN Effect(x.st, api) ELSE x.st,
           trace |-> Append(x.trace, [api |-> api, code |-> code]),
           fault |-> x.fault] :
          code \in { IF x.fault.at = Len(x.trace) + 1
                       THEN FaultReply(api, x.fault)
                       ELSE Reply(x.st, api) } } : TRUE

\* The answer to the call x ends with.
Code(x) == x.trace[Len(x.trace)].code

\* The handle of the resource of kind k: the URI, ARN or id AWS gave it
\* when it was created.
Handle(st, k) == << k, st[k].serial >>

\* How a run of a step function ends: it returns the handle (or True, the
\* handle stored in self), it returns False or None, or it raises.
Returns(x, k) ==
    [st |-> x.st, trace |-> x.trace, status |-> "ok", handle |-> Handle(x.st, k)]
ReturnsFalse(x) ==
    [st |-> x.st, trace |-> x.trace, status |-> "false", handle |-> << >>]
Raises(x) ==
    [st |-> x.st, trace |-> x.trace, status |-> "raise", handle |-> << >>]

\* Several calls one after the other, up to the first that is not
\* answered "ok".
RECURSIVE Chain(_, _)
Chain(x, apis) ==
    IF apis = << >> THEN x
    ELSE CHOOSE r \in { IF Code(y) # "ok" THEN y ELSE Chain(y, Tail(apis)) :
                          y \in { Do(x, Head(apis)) } } : TRUE

\* LambdaDeployer.create_s3_bucket: head_bucket; on ClientError 404
\* create_bucket and the three put_bucket_* calls; the outer
\* `except Exception` turns every other error into False.
LambdaDeployer_create_s3_bucket_on(x0) ==
    LET x1 == Do(x0, "head_bucket") IN
    IF Code(x1) = "ok" THEN Returns(x1, "bucket")
    ELSE IF IsClientErrorCode(Code(x1)) /\ Code(x1) = "404" THEN
        LET x2 == Chain(x1, << "create_bucket", "put_bucket_versioning",
                               "put_bucket_encryption", "put_bucket_tagging" >>)
        IN IF Code(x2) = "ok" THEN Returns(x2, "bucket") ELSE ReturnsFalse(x2)
    ELSE ReturnsFalse(x1)

\* Mutant of LambdaDeployer_create_ecr_repository_on: an existing
\* repository is an error like any other.
LambdaDeployer_create_ecr_repository_noreuse(x0) ==
    LET x1 == Do(x0, "create_repository") IN
    IF Code(x1) = "ok" THEN Returns(x1, "repo") ELSE ReturnsFalse(x1)

\* LambdaDeployer.create_ecr_repository: create_repository; on
\* RepositoryAlreadyExistsException describe_repositories.
LambdaDeployer_create_ecr_repository_on(x0) ==
    LET x1 == Do(x0, "create_repository") IN
    IF Code(x1) = "ok" THEN Returns(x1, "repo")
    ELSE IF IsClientErrorCode(Code(x1))
              /\ Code(x1) = "RepositoryAlreadyExistsException" THEN
        LET x2 == Do(x1, "describe_repositories") IN
        IF Code(x2) = "ok" THEN Returns(x2, "repo") ELSE ReturnsFalse(x2)
    ELSE ReturnsFalse(x1)

\* LambdaDeployer.create_function_url: create_function_url_config, then
\* add_permission, whose ResourceConflictException is swallowed; on
\* ResourceConflictException of the try block get_function_url_config.
LambdaDeployer_create_function_url_on(x0) ==
    LET x1 == Do(x0, "create_function_url_config") IN
    IF Code(x1) = "ok" THEN
        LET x2 == Do(x1, "add_permission") IN
        IF Code(x2) \in {"ok", "ResourceConflictException"}
          THEN Returns(x2, "url") ELSE ReturnsFalse(x2)
    ELSE IF IsClientErrorCode(Code(x1))
              /\ Code(x1) = "ResourceConflictException" THEN
        LET x2 == Do(x1, "get_function_url_config") IN
        IF Code(x2) = "ok" THEN Returns(x2, "url") ELSE ReturnsFalse(x2)
    ELSE ReturnsFalse(x1)

\* Mutant of LambdaDeployer_create_or_update_lambda_function_on: the
\* configuration is updated without waiting for the code update.
LambdaDeployer_create_or_update_lambda_function_nowait(x0) ==
    LET x1 == Do(x0, "create_function") IN
    IF Code(x1) = "ok" THEN Returns(x1, "function")
    ELSE IF IsClientErrorCode(Code(x1))
              /\ Code(x1) = "ResourceConflictException" THEN
        LET x2 == Chain(x1, << "update_function_code",
                               "update_function_configuration",
                               "wait_function_updated", "get_function" >>)
        IN IF Code(x2) = "ok" THEN Returns(x2, "function") ELSE ReturnsFalse(x2)
    ELSE ReturnsFalse(x1)

\* LambdaDeployer.create_or_update_lambda_function: create_function; on
\* ResourceConflictException update_function_code, wait,
\* update_function_configuration, wait, get_function; the outer
\* `except Exception` turns every other error into None.
LambdaDeployer_create_or_update_lambda_function_on(x0) ==
    LET x1 == Do(x0, "create_function") IN
    IF Code(x1) = "ok" THEN Returns(x1, "function")
    ELSE IF IsClientErrorCode(Code(x1))
              /\ Code(x1) = "ResourceConflictException" THEN
        LET x2 == Chain(x1, << "update_function_code", "wait_function_updated",
                               "update_function_configuration",
                               "wait_function_updated", "get_function" >>)
        IN IF Code(x2) = "ok" THEN Returns(x2, "function") ELSE ReturnsFalse(x2)
    ELSE ReturnsFalse(x1)

\* Mutant of AWSDeployer_create_ecr_repository_on: every ClientError of
\* the try block is taken as "the repository exists".
AWSDeployer_create_ecr_repository_anyerror(x0) ==
    LET x1 == Chain(x0, << "create_repository", "tag_resource" >>) IN
    IF Code(x1) = "ok" THEN Returns(x1, "repo")
    ELSE IF IsClientErrorCode(Code(x1)) THEN
        LET x2 == Do(x1, "describe_repositories") IN
        IF Code(x2) = "ok" THEN Returns(x2, "repo") ELSE Raises(x2)
    ELSE Raises(x1)

\* AWSDeployer.create_ecr_repository: create_repository and tag_resource;
\* on RepositoryAlreadyExistsException describe_repositories; every other
\* error is raised.
AWSDeployer_create_ecr_repository_on(x0) ==
    LET x1 == Chain(x0, << "create_repository", "tag_resource" >>) IN
    IF Code(x1) = "ok" THEN Returns(x1, "repo")
    ELSE IF IsClientErrorCode(Code(x1))
              /\ Code(x1) = "RepositoryAlreadyExistsException" THEN
        LET x2 == Do(x1, "describe_repositories") IN
        IF Code(x2) = "ok" THEN Returns(x2, "repo") ELSE Raises(x2)
    ELSE Raises(x1)

\* AWSDeployer.create_lambda_execution_role: create_role and
\* attach_role_policy; on EntityAlreadyExists get_role.
AWSDeployer_create_lambda_execution_role_on(x0) ==
    LET x1 == Chain(x0, << "create_role", "attach_role_policy" >>) IN
    IF Code(x1) = "ok" THEN Returns(x1, "role")
    ELSE IF IsClientErrorCode(Code(x1)) /\ Code(x1) = "EntityAlreadyExists" THEN
        LET x2 == Do(x1, "get_role") IN
        IF Code(x2) = "ok" THEN Returns(x2, "role") ELSE Raises(x2)
    ELSE Raises(x1)

\* Mutant of AWSDeployer_create_lambda_function_on: the
\* ResourceConflictException of create_function is raised.
AWSDeployer_create_lambda_function_noreuse(x0) ==
    LET x1 == Do(x0, "create_function") IN
    IF Code(x1) = "ok" THEN Returns(x1, "function") ELSE Raises(x1)

\* AWSDeployer.create_lambda_function: create_function; on
\* ResourceConflictException update_function_code and get_function.
AWSDeployer_create_lambda_function_on(x0) ==
    LET x1 == Do(x0, "create_function") IN
    IF Code(x1) = "ok" THEN Returns(x1, "function")
    ELSE IF IsClientErrorCode(Code(x1))
              /\ Code(x1) = "ResourceConflictException" THEN
        LET x2 == Chain(x1, << "update_function_code", "get_function" >>) IN
        IF Code(x2) = "ok" THEN Returns(x2, "function") ELSE Raises(x2)
    ELSE Raises(x1)

\* AppRunnerDeployer.create_access_role: create_role and
\* attach_role_policy; on EntityAlreadyExists get_role.
AppRunnerDeployer_create_access_role_on(x0) ==
    LET x1 == Chain(x0, << "create_role", "attach_role_policy" >>) IN
    IF Code(x1) = "ok" THEN Returns(x1, "role")
    ELSE IF IsClientErrorCode(Code(x1)) /\ Code(x1) = "EntityAlreadyExists" THEN
        LET x2 == Do(x1, "get_role") IN
        IF Code(x2) = "ok" THEN Returns(x2, "role") ELSE Raises(x2)
    ELSE Raises(x1)

\* AppRunnerDeployer.create_security_group: describe_security_groups; a
\* group that matches is returned; otherwise create_security_group and
\* authorize_security_group_ingress. Every error is raised.
AppRunnerDeployer_create_security_group_on(x0) ==
    LET x1 == Do(x0, "describe_security_groups") IN
    IF Code(x1) = "ok" THEN Returns(x1, "sg")
    ELSE IF Code(x1) = "empty" THEN
        LET x2 == Chain(x1, << "create_security_group",
                               "authorize_security_group_ingress" >>)
        IN IF Code(x2) = "ok" THEN Returns(x2, "sg") ELSE Raises(x2)
    ELSE Raises(x1)

\* UpdateDeployer.stage_05_ecr_auth: get_authorization_token, then docker
\* login; ClientError and CalledProcessError give False, any other
\* exception (ConnectionError, FileNotFoundError, UnicodeDecodeError)
\* leaves the stage.
stage_05_ecr_auth_on(x0) ==
    LET x1 == Chain(x0, << "get_authorization_token", "docker_login" >>) IN
    IF Code(x1) = "ok"
      THEN [st |-> x1.st, trace |-> x1.trace, status |-> "ok", handle |-> << >>]
    ELSE IF IsClientErrorCode(Code(x1)) \/ Code(x1) = "CalledProcessError"
      THEN ReturnsFalse(x1)
    ELSE Raises(x1)

\* Mutant of stage_07_update_lambda_on: a missing function is created.
stage_07_update_lambda_creates(x0) ==
    LET x1 == Chain(x0, << "update_function_code", "wait_function_updated",
                           "update_function_configuration",
                           "wait_function_updated", "get_function" >>)
    IN IF Code(x1) = "ok" THEN Returns(x1, "function")
       ELSE IF Code(x1) = "ResourceNotFoundException"
         THEN Returns(Do(x1, "create_function"), "function")
       ELSE ReturnsFalse(x1)

\* UpdateDeployer.stage_07_update_lambda: update_function_code, wait,
\* update_function_configuration, wait, get_function; every error gives
\* False.
stage_07_update_lambda_on(x0) ==
    LET x1 == Chain(x0, << "update_function_code", "wait_function_updated",
                           "update_function_configuration",
                           "wait_function_updated", "get_function" >>)
    IN IF Code(x1) = "ok" THEN Returns(x1, "function") ELSE ReturnsFalse(x1)

\* UpdateDeployer.stage_08_verify_api_gateway: get_rest_api, get_stages
stage_08_verify_api_gateway_on(x0) ==
    LET x1 == Chain(x0, << "get_rest_api", "get_stages" >>) IN
    IF Code(x1) = "ok" THEN Returns(x1, "api") ELSE ReturnsFalse(x1)

\* UpdateDeployer.stage_10_verify_route53: get_hosted_zone,
\* list_resource_record_sets
stage_10_verify_route53_on(x0) ==
    LET x1 == Chain(x0, << "get_hosted_zone", "list_resource_record_sets" >>) IN
    IF Code(x1) = "ok" THEN Returns(x1, "zone") ELSE ReturnsFalse(x1)

-----------------------------------------------------------------------------
(* The state machine *)

\* Largest max_retries verify_deployment is called with.
MaxVerifyRetries == 5

StepsOf(s) ==
    CASE s = "update"      -> NumStages
      [] s = "lambda"      -> LambdaSteps
      [] s = "apprunner"   -> ArActions
      [] s = "awsdeployer" -> AwsDeployerSteps
      [] s = "verify"      -> 0

Init ==
    /\ script \in Scripts
    /\ pc = "start"
    /\ exitCode = NotExited
    /\ cur = 0
    /\ ok = "none"
    /\ invoked = << >>
    /\ returned = [i \in 1 .. StepsOf(script) |-> "none"]
    /\ all_passed = TRUE
    /\ failed_at = None
    /\ runResult = "none"
    /\ version = ""
    /\ image_tag = ""
    /\ ecr_image_uri = ""
    /\ ver = [v \in Verifiers |-> VerInit]
    /\ max_retries \in (IF script = "verify" THEN 0 .. MaxVerifyRetries
                                              ELSE {DefaultMaxRetries})
    /\ deployment_result = CASE script = "lambda"    -> LambdaResultInit
                             [] script = "apprunner" -> ArResultInit
                             [] OTHER                -> [success |-> FALSE]
    /\ polls = 0
    /\ firstStatus = "none"
    /\ cmdLog = << >>
    /\ pkgKind = "none"
    /\ io = {}
    /\ pushed = {}
    /\ updated_image = ""
    /\ lastStatus = "none"
    /\ files \in (IF script = "awsdeployer" THEN FileStates ELSE {NoFiles})
    /\ files0 = files
    /\ prov = "none"
    /\ aws = AwsEmpty
    /\ runs = << >>

Next ==
    \/ Preflight \/ CallStage
    \/ Stage01 \/ Stage02 \/ Stage03 \/ Stage04 \/ Stage05 \/ Stage06
    \/ Stage07 \/ Stage08 \/ Stage09 \/ Stage10
    \/ Stage11Attempt \/ Stage11GiveUp \/ Stage12Attempt \/ Stage12GiveUp
    \/ CheckStage \/ RunReturns \/ UpdateMainExits \/ UncaughtException
    \/ LambdaStep1 \/ LambdaStep2 \/ LambdaStep3 \/ LambdaStep4
    \/ LambdaStep5 \/ LambdaStep6 \/ LambdaMainExits
    \/ ArStep1 \/ ArStep2 \/ ArStep3 \/ ArStep4 \/ ArStep5
    \/ ArStep6Access \/ ArStep6Instance \/ ArStep7Request
    \/ ArPoll \/ ArPollTimeout \/ ArMainExits
    \/ AdStep1 \/ AdStep2 \/ AdStep3 \/ AdStep4 \/ AdStep5 \/ AdMainReturns
    \/ VerifyAttempt \/ VerifyGiveUp

Spec == Init /\ [][Next]_vars

\* Each script is one sequential process and every external call returns:
\* whenever the program has a next step, it takes one.
LiveSpec == Init /\ [][Next]_vars /\ WF_vars(Next)

TypeOK ==
    /\ script \in Scripts
    /\ pc \in {"start", "loop", "in_stage", "check", "summary", "polling",
               "returned", "crashed", "exited"}
    /\ exitCode \in {NotExited, 0, 1}
    /\ cur \in 0 .. NumStages
    /\ ok \in {"none", "true", "false"}
    /\ \A i \in DOMAIN returned : returned[i] \in CallResults
    /\ runResult \in {"none", "true", "false"}
    /\ polls \in 0 .. MaxPollAttempts

-----------------------------------------------------------------------------
(* A step function called several times against one AWS account *)

LambdaDeployerFunctions ==
    {"LambdaDeployer.create_s3_bucket", "LambdaDeployer.create_ecr_repository",
     "LambdaDeployer.create_or_update_lambda_function",
     "LambdaDeployer.create_function_url"}
AWSDeployerFunctions ==
    {"AWSDeployer.create_ecr_repository",
     "AWSDeployer.create_lambda_execution_role",
     "AWSDeployer.create_lambda_function"}
AppRunnerDeployerFunctions ==
    {"AppRunnerDeployer.create_access_role",
     "AppRunnerDeployer.create_security_group"}
UpdateDeployerFunctions ==
    {"UpdateDeployer.stage_05_ecr_auth", "UpdateDeployer.stage_07_update_lambda",
     "UpdateDeployer.stage_08_verify_api_gateway",
     "UpdateDeployer.stage_10_verify_route53"}

StepFunctions ==
    LambdaDeployerFunctions \cup AWSDeployerFunctions
        \cup AppRunnerDeployerFunctions \cup UpdateDeployerFunctions

\* The script a step function belongs to.
ScriptOf(p) ==
    CASE p \in LambdaDeployerFunctions    -> "lambda"
      [] p \in AWSDeployerFunctions       -> "awsdeployer"
      [] p \in AppRunnerDeployerFunctions -> "apprunner"
      [] p \in UpdateDeployerFunctions    -> "update"

\* The kind of resource a step function is about.
KindOf(p) ==
    CASE p = "LambdaDeployer.create_s3_bucket"          -> "bucket"
      [] p = "LambdaDeployer.create_ecr_repository"     -> "repo"
      [] p = "LambdaDeployer.create_function_url"       -> "url"
      [] p = "LambdaDeployer.create_or_update_lambda_function" -> "function"
      [] p = "AWSDeployer.create_ecr_repository"        -> "repo"
      [] p = "AWSDeployer.create_lambda_execution_role" -> "role"
      [] p = "AWSDeployer.create_lambda_function"       -> "function"
      [] p = "AppRunnerDeployer.create_access_role"     -> "role"
      [] p = "AppRunnerDeployer.create_security_group"  -> "sg"
      [] p = "UpdateDeployer.stage_07_update_lambda"    -> "function"
      [] p = "UpdateDeployer.stage_08_verify_api_gateway" -> "api"
      [] p = "UpdateDeployer.stage_10_verify_route53"   -> "zone"
      [] OTHER -> "none"

\* One run of step function p.
RunOf(p, x) ==
    CASE p = "LambdaDeployer.create_s3_bucket" ->
             LambdaDeployer_create_s3_bucket_on(x)
      [] p = "LambdaDeployer.create_ecr_repository" ->
             LambdaDeployer_create_ecr_repository_on(x)
      [] p = "LambdaDeployer.create_function_url" ->
             LambdaDeployer_create_function_url_on(x)
      [] p = "LambdaDeployer.create_or_update_lambda_function" ->
             LambdaDeployer_create_or_update_lambda_function_on(x)
      [] p = "AWSDeployer.create_ecr_repository" ->
             AWSDeployer_create_ecr_repository_on(x)
      [] p = "AWSDeployer.create_lambda_execution_role" ->
             AWSDeployer_create_lambda_execution_role_on(x)
      [] p = "AWSDeployer.create_lambda_function" ->
             AWSDeployer_create_lambda_function_on(x)
      [] p = "AppRunnerDeployer.create_access_role" ->
             AppRunnerDeployer_create_access_role_on(x)
      [] p = "AppRunnerDeployer.create_security_group" ->
             AppRunnerDeployer_create_security_group_on(x)
      [] p = "UpdateDeployer.stage_05_ecr_auth" ->
             stage_05_ecr_auth_on(x)
      [] p = "UpdateDeployer.stage_07_update_lambda" ->
             stage_07_update_lambda_on(x)
      [] p = "UpdateDeployer.stage_08_verify_api_gateway" ->
             stage_08_verify_api_gateway_on(x)
      [] p = "UpdateDeployer.stage_10_verify_route53" ->
             stage_10_verify_route53_on(x)

\* Number of times the step function is called in one behaviour.
MaxRuns == 2
\* Largest position of a call a fault can be put at.
MaxFaultAt == 6

Faults == {NoFault} \cup [at : 1 .. MaxFaultAt, code : FaultCodes]

\* The account as one uninterrupted run of p from nothing leaves it,
Provisioned(p) ==
    RunOf(p, [st |-> AwsEmpty, trace |-> << >>, fault |-> NoFault]).st
\* and an account where every resource was created by somebody else.
AwsPreexisting ==
    [k \in ResourceKinds |->
        [exists |-> TRUE, serial |-> 1,
         cfg |-> IF k = "function" THEN {"code"} ELSE {}]]

\* The step function is called once more; the fault, if any, hits one of
\* the calls it makes.
CallStepFunction ==
    /\ pc = "provision" /\ Len(runs) < MaxRuns
    /\ \E f \in Faults :
         \E r \in { RunOf(prov, [st |-> aws, trace |-> << >>, fault |-> f]) } :
         /\ f.at <= Len(r.trace)
         /\ f.at > 0 => FaultFits(r.trace[f.at].api, f)
         /\ aws' = r.st
         /\ runs' = Append(runs, [fault |-> f, pre |-> aws, status |-> r.status,
                                  handle |-> r.handle, trace |-> r.trace])
    /\ UNCHANGED << script, pc, exitCode, cur, ok, invoked, returned,
                    runResult, updVars, ver, otherVars, prov, histVars >>

CallLambdaDeployerFunction ==
    prov \in LambdaDeployerFunctions /\ CallStepFunction
CallAWSDeployerFunction ==
    prov \in AWSDeployerFunctions /\ CallStepFunction
CallAppRunnerDeployerFunction ==
    prov \in AppRunnerDeployerFunctions /\ CallStepFunction
CallUpdateDeployerStage ==
    prov \in UpdateDeployerFunctions /\ CallStepFunction

ProvInit ==
    /\ prov \in StepFunctions
    /\ script = ScriptOf(prov)
    /\ pc = "provision"
    /\ aws \in {AwsEmpty, Provisioned(prov), AwsPreexisting}
    /\ runs = << >>
    /\ exitCode = NotExited
    /\ cur = 0
    /\ ok = "none"
    /\ invoked = << >>
    /\ returned = [i \in 1 .. StepsOf(script) |-> "none"]
    /\ all_passed = TRUE
    /\ failed_at = None
    /\ runResult = "none"
    /\ version = ""
    /\ image_tag = ""
    /\ ecr_image_uri = ""
    /\ ver = [v \in Verifiers |-> VerInit]
    /\ max_retries = DefaultMaxRetries
    /\ deployment_result = CASE script = "lambda"    -> LambdaResultInit
                             [] script = "apprunner" -> ArResultInit
                             [] OTHER                -> [success |-> FALSE]
    /\ polls = 0
    /\ firstStatus = "none"
    /\ cmdLog = << >>
    /\ pkgKind = "none"
    /\ io = {}
    /\ pushed = {}
    /\ updated_image = ""
    /\ lastStatus = "none"
    /\ files = NoFiles
    /\ files0 = NoFiles

ProvNext ==
    \/ CallLambdaDeployerFunction
    \/ CallAWSDeployerFunction
    \/ CallAppRunnerDeployerFunction
    \/ CallUpdateDeployerStage

ProvSpec == ProvInit /\ [][ProvNext]_vars

-----------------------------------------------------------------------------
(* Properties *)

\* Stage/step function i has been called.
Invoked(i) == \E n \in 1 .. Len(invoked) : invoked[n] = i

\* The statuses the health-check policy counts as Success.
PolicySuccessCodes == {200, 301, 302, 400, 403, 404, 405}

\* The probe of verifier v last observed an HTTP status of the policy's
\* success set.
ObservedSuccessCode(v) ==
    /\ ver[v].lastOutcome.kind \in {"response", "HTTPError"}
    /\ ver[v].lastOutcome.code \in PolicySuccessCodes

\* C1: fail-fast. In UpdateDeployer.run, once a stage function has returned
\* False, no later stage function of the list is invoked in that run.
C1_FailFast ==
    script = "update" =>
        \A i \in 1 .. NumStages :
            returned[i] = "false" =>
                \A j \in (i + 1) .. NumStages : ~Invoked(j)

\* C1 witness: the run ended after stage 4 returned False.
C1_Witness ==
    script = "update" /\ pc = "exited" /\ returned[4] = "false"

\* C2 (as claimed): in every pipeline, a run that reports overall success
\* has executed the action of every declared stage/step, and each of them
\* succeeded.
C2_SuccessRanEveryStage ==
    /\ (script = "update" /\ runResult = "true") =>
           \A i \in 1 .. NumStages : Invoked(i) /\ returned[i] = "true"
    /\ (script = "lambda" /\ deployment_result.success) =>
           \A k \in 1 .. LambdaSteps : Invoked(k) /\ returned[k] = "true"
    /\ (script = "apprunner" /\ deployment_result.success) =>
           \A k \in 1 .. ArDeclaredSteps :
               \A a \in ArStepActions(k) : Invoked(a) /\ returned[a] = "true"

\* C3: the stages of UpdateDeployer.run are called in list order 1, 2, ...
\* without gap or repetition; stage i+1 is called only after stage i
\* returned True; at most one stage is in progress at any time.
C3_StageOrder ==
    script = "update" =>
        /\ \A n \in 1 .. Len(invoked) : invoked[n] = n
        /\ \A n \in 2 .. Len(invoked) : returned[n - 1] = "true"
        /\ Cardinality({i \in 1 .. NumStages :
                            Invoked(i) /\ returned[i] = "none"}) <= 1

\* C3 witness: all twelve stages were called and stage 12 is in progress,
\* between two of its attempts.
C3_Witness ==
    /\ script = "update" /\ Len(invoked) = NumStages
    /\ pc = "in_stage" /\ ver["stage12"].probes = 2

\* The deployment_result field step k of LambdaDeployer.deploy fills in
\* (step 4, the IAM role, has none).
LambdaField(d, k) ==
    CASE k = 1 -> d.s3_bucket
      [] k = 2 -> d.ecr_repository
      [] k = 3 -> d.image_uri
      [] k = 4 -> None
      [] k = 5 -> d.function_arn
      [] k = 6 -> d.function_url

\* C4 (as claimed): when a stage returned False, UpdateDeployer.run sets
\* failed_at to that stage's label and returns False; when a step failed
\* (it returned a falsy value or raised), LambdaDeployer.deploy sets
\* failed_step to that step's name, leaves success False and leaves the
\* fields of every later step at None.
C4_FailureReport ==
    /\ script = "update" =>
         \A i \in 1 .. NumStages :
             (returned[i] = "false" /\ pc \in {"summary", "returned", "exited"}) =>
                 /\ failed_at = StageLabel(i)
                 /\ ~all_passed
                 /\ pc # "summary" => runResult = "false"
    /\ script = "lambda" =>
         \A k \in 1 .. LambdaSteps :
             returned[k] \in {"false", "raise"} =>
                 /\ deployment_result.failed_step = LambdaStepName(k)
                 /\ ~deployment_result.success
                 /\ \A m \in (k + 1) .. LambdaSteps :
                        LambdaField(deployment_result, m) = None

\* C5: each script's process exits with status 0 exactly when its pipeline
\* reported full success, and with status 1 whenever a stage failed.
C5_ExitCode ==
    (script \in {"update", "lambda", "awsdeployer"} /\ pc = "exited") =>
        /\ exitCode \in {0, 1}
        /\ exitCode = 0 <=> runResult = "true"
        /\ (\E i \in DOMAIN returned : returned[i] \in {"false", "raise"})
               => exitCode = 1

\* C5 witness: the update script exited 1 after stage 2 returned False.
C5_Witness ==
    script = "update" /\ pc = "exited" /\ exitCode = 1 /\ returned[2] = "false"

\* C6: retry exhaustion. A verifier with max_retries = N whose probe failed
\* transiently (connection error or 5xx) on every attempt has invoked the
\* probe exactly N times and returned False.
C6_RetryExhaustion ==
    \A v \in Verifiers :
        (ver[v].result # "none" /\ ver[v].transient = ver[v].probes) =>
            /\ ver[v].probes = MaxRetriesOf(v)
            /\ ver[v].result = "false"

\* C6 witness: stage 12 gave up after five transient failures.
C6_Witness ==
    /\ script = "update"
    /\ ver["stage12"].result = "false"
    /\ ver["stage12"].transient = Stage12MaxRetries

\* C7: early success. When the probe of a verifier first succeeds on
\* attempt k (by whatever reply the verifier counts as success: a 200, 301
\* or 302 response or an HTTPError 400, 403, 404 or 405 for stages 11 and
\* 12, a 200 response for verify_deployment), the verifier returns True
\* after exactly k probe invocations and makes no further one.
C7_EarlySuccess ==
    \A v \in Verifiers :
        ver[v].firstOkAt # 0 =>
            /\ ver[v].result = "true"
            /\ ver[v].probes = ver[v].firstOkAt
            /\ ver[v].attempt = ver[v].firstOkAt
            /\ ver[v].firstOkAt <= MaxRetriesOf(v)

\* C7 witness: stage 11 saw two connection errors, then 200 on attempt 3,
\* and the run has ended.
C7_Witness ==
    /\ script = "update" /\ pc = "exited"
    /\ ver["stage11"].firstOkAt = 3
    /\ Plain200(ver["stage11"].lastOutcome)
    /\ ver["stage11"].transient = 2
    /\ ver["stage11"].probes = 3

\* C8: in the App Runner status poll, a terminal failure status on the
\* first poll causes exactly one describe_service poll, and the step fails.
C8_TerminalStopsPolling ==
    (script = "apprunner"
        /\ firstStatus \in {"CREATE_FAILED", "UPDATE_FAILED", "DELETE_FAILED"}) =>
            /\ polls = 1
            /\ returned[8] = "raise"
            /\ ~deployment_result.success
            /\ runResult = "false"

\* C8 witness: the first poll saw UPDATE_FAILED and the script has exited.
C8_Witness ==
    script = "apprunner" /\ pc = "exited" /\ firstStatus = "UPDATE_FAILED"

\* C9 (as claimed): in stage 11 and stage 12, an HTTP response with status
\* 200, 301, 302, 400, 403, 404 or 405 counts as Success: the stage returns
\* True on the attempt that observes it.
C9_HealthCheckSuccessCodes ==
    /\ ObservedSuccessCode("stage11") =>
           ver["stage11"].result = "true" /\ returned[11] = "true"
    /\ ObservedSuccessCode("stage12") =>
           ver["stage12"].result = "true" /\ returned[12] = "true"

\* C10 (as claimed): verify_deployment follows the same policy: a response
\* with status 200, 301, 302, 400, 403, 404 or 405 makes it return True on
\* that attempt.
C10_VerifySamePolicy ==
    ObservedSuccessCode("verify") => ver["verify"].result = "true"

\* C10 (amended): verify_deployment counts only status 200 as Success: a
\* 200 response makes it return True on that attempt, and a response with
\* status 301, 302, 400, 403, 404 or 405 does not.
C10_VerifyOnly200 ==
    /\ Plain200(ver["verify"].lastOutcome) =>
           ver["verify"].result = "true" /\ runResult = "true"
    /\ (ObservedSuccessCode("verify") /\ ver["verify"].lastOutcome.code # 200) =>
           ver["verify"].result # "true"

\* C10 witness: every one of three attempts was answered 403 and
\* verify_deployment returned False.
C10_Witness ==
    /\ script = "verify" /\ max_retries = 3
    /\ ver["verify"].lastOutcome = [kind |-> "response", code |-> 403]
    /\ ver["verify"].probes = 3
    /\ ver["verify"].result = "false"

\* The success test of a health-check stage.
StageSucceeds(v, o) ==
    IF v = "stage11" THEN Stage11Succeeds(o) ELSE Stage12Succeeds(o)

\* The position of a health-check stage in the stage list.
StageOf(v) == IF v = "stage11" THEN 11 ELSE 12

\* C11: in stage 11 and stage 12 no HTTP outcome is terminal. A probe that
\* did not observe a Success (connection error, 5xx, any other status, any
\* other exception) leaves the stage in its loop; the stage returns False
\* only after all max_retries probes, and True only on a Success.
C11_NoTerminalOutcome ==
    \A v \in {"stage11", "stage12"} :
        LET s == ver[v] IN
        /\ s.result = "false" =>
               s.probes = MaxRetriesOf(v) /\ ~StageSucceeds(v, s.lastOutcome)
        /\ s.result = "true" => StageSucceeds(v, s.lastOutcome)
        /\ (s.probes > 0 /\ ~StageSucceeds(v, s.lastOutcome) /\ s.result = "none") =>
               /\ pc = "in_stage" /\ cur = StageOf(v)
               /\ returned[StageOf(v)] = "none"
               /\ s.attempt = s.probes + 1

\* C11 witness: stage 11 returned True on its fifth probe, after three
\* connection-or-5xx failures and one other non-success outcome.
C11_Witness ==
    /\ script = "update"
    /\ ver["stage11"].result = "true"
    /\ ver["stage11"].probes = 5
    /\ ver["stage11"].transient = 3

\* The step functions that create a resource or reuse the one that exists.
CreateOrReuse == StepFunctions \ UpdateDeployerFunctions

\* The account after the i-th call of the step function.
PostOf(i) == IF i = Len(runs) THEN aws ELSE runs[i + 1].pre

\* The i-th call of the step function got the already-exists error from
\* its create call.
GotAlreadyExists(i) ==
    \E n \in 1 .. Len(runs[i].trace) :
        /\ ApiType(runs[i].trace[n].api) = "create"
        /\ runs[i].trace[n].code = AlreadyExistsCode(KindOf(prov))

\* C12: provisioning idempotence. A create-or-reuse step function called
\* twice in succession (no call of either run failing for an outside
\* reason) returns the same handle both times, and the second call leaves
\* the one resource of that name, creating no other.
C12_ProvisionIdempotent ==
    prov \in CreateOrReuse =>
        \A i \in 1 .. (Len(runs) - 1) :
            (runs[i].fault.at = 0 /\ runs[i + 1].fault.at = 0) =>
                /\ runs[i].status = "ok" /\ runs[i + 1].status = "ok"
                /\ runs[i + 1].handle = runs[i].handle
                /\ PostOf(i + 1)[KindOf(prov)].exists
                /\ PostOf(i + 1)[KindOf(prov)].serial = PostOf(i)[KindOf(prov)].serial

\* C12 witness: AWSDeployer.create_lambda_execution_role created the role
\* in an empty account and was called again, which found it with get_role.
C12_Witness ==
    /\ prov = "AWSDeployer.create_lambda_execution_role"
    /\ Len(runs) = 2
    /\ runs[1].pre = AwsEmpty
    /\ runs[1].fault.at = 0 /\ runs[2].fault.at = 0
    /\ runs[2].trace[Len(runs[2].trace)].api = "get_role"

\* C13: an already-exists answer to a create call is not a step failure:
\* the step function fetches the existing resource and returns its handle.
C13_AlreadyExistsIsReuse ==
    prov \in CreateOrReuse =>
        \A i \in 1 .. Len(runs) :
            (GotAlreadyExists(i) /\ runs[i].fault.at = 0) =>
                /\ runs[i].status = "ok"
                /\ runs[i].handle = Handle(runs[i].pre, KindOf(prov))
                /\ LET last == runs[i].trace[Len(runs[i].trace)] IN
                   ApiType(last.api) = "read" /\ last.code = "ok"

\* C13 witness: AWSDeployer.create_lambda_function was answered
\* ResourceConflictException by create_function and returned the ARN.
C13_Witness ==
    /\ prov = "AWSDeployer.create_lambda_function"
    /\ Len(runs) >= 1
    /\ runs[1].trace[1].code = "ResourceConflictException"
    /\ runs[1].status = "ok"

\* C14 (as claimed): safe re-run. A run of a create-or-reuse step function
\* from an empty account that fails inside the function, followed by a
\* complete re-run, leaves the resource with the configuration one
\* uninterrupted successful run leaves.
C14_RerunSameConfiguration ==
    (prov \in {"LambdaDeployer.create_s3_bucket",
               "LambdaDeployer.create_function_url",
               "AppRunnerDeployer.create_security_group"}
        /\ Len(runs) = 2 /\ runs[1].pre = AwsEmpty
        /\ runs[1].status # "ok"
        /\ runs[2].fault.at = 0 /\ runs[2].status = "ok") =>
            aws[KindOf(prov)] = Provisioned(prov)[KindOf(prov)]

\* C19: a ClientError that is not the code the step function recovers
\* from (AccessDenied, 403) fails the step at once: the run does not
\* succeed, and the failing call is the last call of the run.
C19_ClientErrorFailsAtOnce ==
    \A i \in 1 .. Len(runs) :
        LET r == runs[i] IN
        (r.fault.at > 0 /\ IsClientErrorCode(r.trace[r.fault.at].code)) =>
            /\ r.status # "ok"
            /\ Len(r.trace) = r.fault.at
            /\ r.fault.at = 1 => PostOf(i) = r.pre

\* C19 witness: head_bucket of LambdaDeployer.create_s3_bucket was
\* answered 403; the step returned False after that one call.
C19_Witness ==
    /\ prov = "LambdaDeployer.create_s3_bucket"
    /\ Len(runs) >= 1
    /\ runs[1].fault = [at |-> 1, code |-> "403"]
    /\ runs[1].status = "false"
    /\ Len(runs[1].trace) = 1

\* C20: stages 7, 8 and 10 of the update pipeline fail when AWS reports
\* their resource as not found and never create it; stages 8 and 10 make
\* read calls only and leave the account as it was.
C20_VerifyStagesNeverCreate ==
    \A i \in 1 .. Len(runs) :
        LET r == runs[i] IN
        /\ (prov \in {"UpdateDeployer.stage_07_update_lambda",
                      "UpdateDeployer.stage_08_verify_api_gateway",
                      "UpdateDeployer.stage_10_verify_route53"}) =>
               /\ \A n \in 1 .. Len(r.trace) : ApiType(r.trace[n].api) # "create"
               /\ ~r.pre[KindOf(prov)].exists =>
                      /\ r.status = "false"
                      /\ ~PostOf(i)[KindOf(prov)].exists
                      /\ (r.fault.at # 1 =>
                             r.trace[1].code = NotFoundCode(KindOf(prov)))
        /\ (prov \in {"UpdateDeployer.stage_08_verify_api_gateway",
                      "UpdateDeployer.stage_10_verify_route53"}) =>
               /\ \A n \in 1 .. Len(r.trace) : ApiType(r.trace[n].api) = "read"
               /\ PostOf(i) = r.pre

\* C20 witness: stage 7 ran against an account without the function and
\* update_function_code was answered ResourceNotFoundException.
C20_Witness ==
    /\ prov = "UpdateDeployer.stage_07_update_lambda"
    /\ Len(runs) >= 1
    /\ ~runs[1].pre["function"].exists
    /\ runs[1].trace[1].code = "ResourceNotFoundException"
    /\ runs[1].status = "false"

\* A command that ran and exited non-zero.
ExitedNonZero(e) == ExitOf(e.outcome) = "nonzero"

\* The caller of the run() calls in cmdLog failed: the stage in progress
\* returned False (the pre-flight check made run() return False).
CallerFailed ==
    IF cur = 0 THEN runResult = "false" ELSE returned[cur] = "false"

\* C15 (as claimed): run() does not raise when the command runs and exits
\* non-zero: it returns False with the captured stderr, and the calling
\* stage turns that into a stage failure.
C15_NonZeroExitFailsStage ==
    \A n \in 1 .. Len(cmdLog) :
        ExitedNonZero(cmdLog[n]) =>
            /\ cmdLog[n].ok = "false"
            /\ cmdLog[n].outcome = "nonzero" => cmdLog[n].stderr = "captured stderr"
            /\ CallerFailed

\* C16 (as claimed): run() on a tool that cannot be started returns False
\* with a non-empty error message, and no unhandled exception leaves
\* run() or the pipeline.
C16_MissingToolReturnsFalse ==
    \A n \in 1 .. Len(cmdLog) :
        cmdLog[n].outcome = "oserror" =>
            /\ cmdLog[n].ok = "false"
            /\ cmdLog[n].stderr # ""
            /\ pc # "crashed"

\* C17: each run-context field of UpdateDeployer is assigned by exactly
\* one stage (version and image_tag by stage 1, ecr_image_uri by stage 6)
\* and no other step of the run changes it.
C17_ContextWrittenByOneStage ==
    /\ [](script = "update" =>
            /\ version = (IF returned[1] = "true" THEN "1.2.0" ELSE "")
            /\ image_tag = (IF returned[1] = "true" THEN "v1.2.0" ELSE "")
            /\ ecr_image_uri =
                 (IF returned[6] # "none"
                    THEN "415740581749.dkr.ecr.us-west-2.amazonaws.com/python-repl-container-lambda:v1.2.0"
                    ELSE ""))
    /\ [][ /\ (version' # version \/ image_tag' # image_tag) =>
                  (script = "update" /\ pc = "in_stage" /\ cur = 1)
           /\ (ecr_image_uri' # ecr_image_uri) =>
                  (script = "update" /\ pc = "in_stage" /\ cur = 6) ]_vars

\* C17 witness: all twelve stages passed; the three fields are set.
C17_Witness ==
    /\ script = "update" /\ returned[12] = "true"
    /\ version # "" /\ image_tag # "" /\ ecr_image_uri # ""

\* C18 (as claimed): malformed input is fatal without retry. When
\* package.json cannot be read (it cannot be opened, or its bytes cannot
\* be decoded), is not valid JSON, or has a missing or empty version,
\* stage 1 is called exactly once and returns False, version and image_tag
\* stay unset, and no later stage (no docker command) runs.
C18_MalformedInputFatal ==
    (script = "update"
        /\ pkgKind \in {"unreadable", "not_utf8", "bad_json", "missing",
                        "blank"}) =>
            /\ returned[1] = "false"
            /\ invoked = << 1 >>
            /\ version = "" /\ image_tag = ""
            /\ cmdLog = << >>
            /\ pc = "exited" => exitCode = 1

\* The process has ended (verify_deployment, a function, has returned).
Terminal == pc = "exited" \/ (script = "verify" /\ pc = "returned")

\* Completed: the pipeline reported success and every one of its stages
\* was called and returned True.
Completed ==
    /\ runResult = "true"
    /\ \A i \in 1 .. StepsOf(script) : Invoked(i) /\ returned[i] = "true"

\* Failed at one stage: the pipeline reported failure, the last stage it
\* called is the one that failed (it returned a falsy value, or raised an
\* exception the pipeline caught), and every stage before it passed.
FailedAtOneStage ==
    /\ runResult = "false"
    /\ Len(invoked) >= 1
    /\ returned[invoked[Len(invoked)]] \in {"false", "raise"}
    /\ \A n \in 1 .. (Len(invoked) - 1) : returned[invoked[n]] = "true"

\* C21 (as claimed): termination. Every run of a pipeline eventually
\* reaches a terminal outcome, either Completed (all stages passed) or
\* Failed at one stage; stage 11 and stage 12 make at most 5 probes,
\* verify_deployment at most max_retries, and the App Runner status poll
\* at most 60 polls.
C21_Termination ==
    /\ <>Terminal
    /\ [](/\ ver["stage11"].probes <= 5
          /\ ver["stage12"].probes <= 5
          /\ ver["verify"].probes <= max_retries
          /\ polls <= 60
          /\ Terminal =>
                 \/ script = "verify" /\ runResult \in {"true", "false"}
                 \/ Completed
                 \/ FailedAtOneStage)

\* The twelve stage actions, by label.
StageLabels == { StageLabel(i) : i \in 1 .. NumStages }

\* C22 (as claimed): UpdateDeployer.run performs no external I/O itself:
\* every external call of a run is made inside one of the twelve stage
\* actions.
C22_RunnerNoExternalIO ==
    script = "update" => io \subseteq StageLabels

\* C22 (amended): every external call of a run is made inside one of the
\* twelve stage actions or inside the pre-flight check that run() calls
\* before the first stage (STS get_caller_identity, `docker info`); the
\* loop, the test of ok and the summary of run() make none.
C22_RunnerNoExternalIOButPreflight ==
    /\ [](script = "update" =>
            /\ io \subseteq StageLabels \cup {"preflight_check"}
            /\ \A i \in 1 .. NumStages : StageLabel(i) \in io => Invoked(i)
            /\ pc # "start" => "preflight_check" \in io)
    /\ [][ io' # io =>
              \/ pc = "start" /\ io' = io \cup {"preflight_check"}
              \/ pc = "in_stage" /\ io' = io \cup {StageLabel(cur)} ]_vars

\* C22 witness: the run ended at stage 5; the pre-flight check and stages
\* 2 to 5 made external calls.
C22_Witness ==
    /\ script = "update" /\ pc = "exited" /\ returned[5] = "false"
    /\ io = {"preflight_check"} \cup { StageLabel(i) : i \in 2 .. 5 }

\* C23: update_function_code (stage 7) is only ever given an image URI
\* that a `docker push` of stage 6 put into ECR earlier in the same run;
\* while ecr_image_uri names an image that was not pushed, stage 7 is not
\* called.
C23_LambdaUpdateOnlyOfPushedImage ==
    script = "update" =>
        /\ updated_image # "" =>
               /\ updated_image \in pushed
               /\ updated_image = ecr_image_uri
               /\ returned[6] = "true" /\ Invoked(7)
        /\ (ecr_image_uri # "" /\ ecr_image_uri \notin pushed) =>
               /\ updated_image = ""
               /\ ~Invoked(7)
        /\ Invoked(7) /\ returned[7] # "none" => updated_image # ""

\* C23 witness: stage 6 pushed both tags and stage 7 gave the versioned
\* one to update_function_code.
C23_Witness ==
    /\ script = "update" /\ returned[7] = "true"
    /\ updated_image = EcrTagOf(ImageTagOf(PackageVersion))
    /\ pushed = {EcrTagOf(ImageTagOf(PackageVersion)), EcrTagOf("latest")}

\* Run-context field f of AppRunnerDeployer was assigned by one of the
\* first n - 1 calls of this run.
ArAssignedBefore(f, n) ==
    \E m \in 1 .. (n - 1) :
        f \in ArWrites(invoked[m]) /\ returned[invoked[m]] = "true"

\* C24 (as claimed): every run-context field a step of
\* AppRunnerDeployer.deploy reads (image_uri, vpc_id, security_group_id,
\* efs_id) was assigned a value other than None by an earlier step of the
\* same run; this includes efs_id when create_instance_role builds the EFS
\* policy.
C24_ContextAssignedBeforeRead ==
    script = "apprunner" =>
        \A n \in 1 .. Len(invoked) :
            \A f \in ArReads(invoked[n]) : ArAssignedBefore(f, n)

\* The commands in log are the first Len(log) of order, in that order, and
\* every one but the last returned True.
RanInOrder(log, order) ==
    /\ Len(log) <= Len(order)
    /\ \A n \in 1 .. Len(log) : log[n].cmd = order[n]
    /\ \A n \in 1 .. (Len(log) - 1) : log[n].ok = "true"

\* How a stage that ran the commands in log, of which order is the full
\* list, ends: True when all ran and returned True; otherwise as the
\* run() call of the last command did (False on a non-zero exit, the
\* exception on a command that could not be started or whose output was
\* not UTF-8).
EndsAsLastCommand(log, order, res) ==
    IF Len(log) = Len(order) /\ log[Len(log)].ok = "true"
      THEN res = "true"
      ELSE /\ Len(log) >= 1
           /\ log[Len(log)].ok # "true"
           /\ res = log[Len(log)].ok

\* C25: stage 6 runs build, tag (versioned), tag (latest), push
\* (versioned), push (latest) in that order, and stage 4, after its login,
\* tag, tag latest, push, push latest for the app image and then for the
\* db-init image; the first command that fails ends the stage, no later
\* command of the stage runs, and the db-init image is touched only after
\* all four commands for the app image succeeded.
C25_DockerCommandOrder ==
    /\ (script = "update" /\ cur = 6 /\ returned[6] # "none") =>
           LET order == << "docker buildx build lambda", "docker tag ecr",
                           "docker tag ecr latest", "docker push ecr",
                           "docker push ecr latest" >>
           IN /\ RanInOrder(cmdLog, order)
              /\ EndsAsLastCommand(cmdLog, order, returned[6])
    /\ (script = "update" /\ cur = 4 /\ returned[4] # "none"
            /\ cmdLog[1].ok # "raise") =>
           LET order == << "docker tag app", "docker tag app latest",
                           "docker push app", "docker push app latest",
                           "docker tag db-init", "docker tag db-init latest",
                           "docker push db-init", "docker push db-init latest" >>
               log   == Tail(cmdLog)
           IN /\ cmdLog[1].cmd = "docker login"
              /\ RanInOrder(log, order)
              /\ EndsAsLastCommand(log, order, returned[4])
              /\ \A n \in 5 .. Len(log) :
                     \A m \in 1 .. 4 : log[m].ok = "true"

\* C25 witness: in stage 4 the push of the app image exited 0 with text
\* on stderr and the push of its latest tag failed; the stage returned
\* False and no db-init command ran.
C25_Witness ==
    /\ script = "update" /\ cur = 4 /\ returned[4] = "false"
    /\ Len(cmdLog) = 5
    /\ cmdLog[4].cmd = "docker push app" /\ cmdLog[4].outcome = "ok_warn"
    /\ cmdLog[5].cmd = "docker push app latest" /\ cmdLog[5].ok = "false"

\* The calls of run r that update an existing function: all of stage 7;
\* of create_or_update_lambda_function the ones after a create_function
\* that was answered "the function exists".
UpdateCalls(r) ==
    IF prov = "UpdateDeployer.stage_07_update_lambda" THEN r.trace
    ELSE IF r.trace[1].code = "ResourceConflictException" THEN Tail(r.trace)
    ELSE << >>

\* C26: an existing Lambda function is updated by the calls
\* update_function_code, wait function_updated,
\* update_function_configuration, wait function_updated, get_function, in
\* that order; each is issued only after the one before it succeeded (so
\* the configuration update never precedes the end of the first wait), and
\* a failure of any of them fails the step without the remaining calls.
C26_LambdaUpdateOrder ==
    prov \in {"UpdateDeployer.stage_07_update_lambda",
              "LambdaDeployer.create_or_update_lambda_function"} =>
        \A i \in 1 .. Len(runs) :
            LET t     == UpdateCalls(runs[i])
                order == << "update_function_code", "wait_function_updated",
                            "update_function_configuration",
                            "wait_function_updated", "get_function" >>
            IN t # << >> =>
                 /\ Len(t) <= Len(order)
                 /\ \A n \in 1 .. Len(t) : t[n].api = order[n]
                 /\ \A n \in 1 .. (Len(t) - 1) : t[n].code = "ok"
                 /\ runs[i].status =
                        (IF Len(t) = Len(order) /\ t[Len(t)].code = "ok"
                           THEN "ok" ELSE "false")

\* C26 witness: create_or_update_lambda_function found the function,
\* updated its code, and the second wait failed: the step returned None
\* without calling get_function.
C26_Witness ==
    /\ prov = "LambdaDeployer.create_or_update_lambda_function"
    /\ Len(runs) >= 1
    /\ runs[1].trace[1].code = "ResourceConflictException"
    /\ Len(runs[1].trace) = 5
    /\ runs[1].trace[5].api = "wait_function_updated"
    /\ runs[1].trace[5].code = "ConnectionError"
    /\ runs[1].status = "false"

\* C27: in stage 4 a Docker Hub login that failed (it exited non-zero and
\* run() returned False) does not fail the stage: the stage goes on to tag
\* and push, returns False exactly when run() returned False for one of
\* its docker tag / docker push commands, and returns True exactly when
\* all eight succeeded.
C27_FailedLoginDoesNotFailStage ==
    (script = "update" /\ cur = 4 /\ returned[4] # "none"
        /\ ExitedNonZero(cmdLog[1]) /\ cmdLog[1].ok = "false") =>
            /\ cmdLog[1].cmd = "docker login"
            /\ Len(cmdLog) >= 2
            /\ cmdLog[2].cmd = "docker tag app"
            /\ returned[4] = "false" <=>
                   \E n \in 2 .. Len(cmdLog) : cmdLog[n].ok = "false"
            /\ returned[4] = "true" <=>
                   /\ Len(cmdLog) = 1 + Stage4Commands
                   /\ \A n \in 2 .. Len(cmdLog) : cmdLog[n].ok = "true"

\* C27 witness: the login exited non-zero, the eight tag and push commands
\* succeeded on cached credentials (the first push with text on stderr),
\* and stage 4 returned True.
C27_Witness ==
    /\ script = "update" /\ cur = 4 /\ returned[4] = "true"
    /\ cmdLog[1].cmd = "docker login" /\ cmdLog[1].outcome = "nonzero"
    /\ Len(cmdLog) = 9
    /\ cmdLog[4].cmd = "docker push app" /\ cmdLog[4].outcome = "ok_warn"

\* Statuses the poll neither returns nor raises on.
NonTerminalStatuses == {"OPERATION_IN_PROGRESS", "PAUSED"}

\* C28: the App Runner status poll returns the service as soon as a poll
\* observes RUNNING; when every poll observes a non-terminal status it
\* makes exactly 60 polls and fails with the timeout error; when the poll
\* fails (a failure status, or the timeout) deploy() catches the error and
\* returns a result with success False and a non-empty errors list.
C28_PollOutcome ==
    script = "apprunner" =>
        /\ lastStatus = "RUNNING" =>
               /\ pc # "polling" /\ returned[8] = "true"
               /\ deployment_result.success /\ runResult = "true"
        /\ returned[8] = "true" => lastStatus = "RUNNING"
        /\ pc = "polling" =>
               /\ polls <= 60
               /\ polls > 0 => lastStatus \in NonTerminalStatuses
        /\ (pc # "polling" /\ lastStatus \in NonTerminalStatuses) =>
               /\ polls = 60
               /\ returned[8] = "raise"
        /\ (returned[8] = "raise" /\ polls > 0) =>
               /\ pc \in {"returned", "exited"}
               /\ ~deployment_result.success
               /\ deployment_result.errors # << >>
               /\ runResult = "false"

\* C28 witness: sixty polls saw the operation in progress; deploy()
\* returned the failure and the script has exited.
C28_Witness ==
    /\ script = "apprunner" /\ pc = "exited"
    /\ polls = 60 /\ lastStatus = "OPERATION_IN_PROGRESS"
    /\ Len(deployment_result.errors) = 1

\* C29: the HTTP verifiers sleep only between attempts. A verifier that
\* used up its N attempts has slept N - 1 times, one that succeeded on
\* attempt k has slept k - 1 times, and one still in its loop has slept
\* once after each failed attempt that was not the last.
C29_SleepsBetweenAttempts ==
    \A v \in Verifiers :
        LET s == ver[v]
            N == MaxRetriesOf(v)
        IN /\ (s.result = "false" /\ s.probes >= 1) =>
                  s.probes = N /\ s.sleeps = N - 1
           /\ s.result = "true" => s.sleeps = s.probes - 1
           /\ s.result = "none" =>
                  s.sleeps = (IF s.probes < N THEN s.probes ELSE N - 1)
                      \/ s.probes = 0

\* C29 witness: verify_deployment, called with max_retries = 4, succeeded
\* on its third attempt after two sleeps.
C29_Witness ==
    /\ script = "verify" /\ max_retries = 4
    /\ ver["verify"].result = "true"
    /\ ver["verify"].probes = 3 /\ ver["verify"].sleeps = 2

\* C30 (as claimed): AWSDeployer.build_and_push_docker_image leaves
\* .dockerignore as it found it: after the call, whether the build
\* succeeded or failed and whichever of .dockerignore and
\* .dockerignore.lambda existed before, .dockerignore has the existence
\* and content it had before the call and there is no .dockerignore.backup.
C30_DockerignoreLeftAsFound ==
    (script = "awsdeployer" /\ Invoked(2)) =>
        /\ files.dockerignore = files0.dockerignore
        /\ files.backup = "absent"

====
